---- MODULE Spec2Model ----
(***************************************************************************)
(* Node state machines of the four algorithms of the repository, run by    *)
(* the pydistsim kernel: Oral-Messages Byzantine Generals                  *)
(* (Parte1/byzantine.py), Two-Phase Commit (Parte2/twopc.py), Three-Phase  *)
(* Commit (Parte2/threepc.py) and the signed Byzantine 3PC                 *)
(* (Parte2/threepc_byzantine.py).                                          *)
(*                                                                         *)
(* The kernel delivers one event (INI, message, alarm) to one node at a    *)
(* time; its handler, chosen by the node's status, runs to completion.     *)
(* Messages in flight are delivered in any order; where the algorithm does *)
(* not require TotalReliability a message in flight may be lost.  In 2PC   *)
(* and 3PC an armed alarm fires at any later moment (a reply may be        *)
(* delayed past its timeout); in the one-lost-Ack 3PC runs and in          *)
(* Byzantine 3PC an alarm fires once the messages sent before it have been *)
(* delivered or lost (20 ticks against one tick per message).  An          *)
(* exception raised by a handler aborts the simulation.                    *)
(***************************************************************************)
EXTENDS Integers, Sequences, FiniteSets, Bags, TLC

VARIABLES
    params,    \* the algorithm's parameters (self.n, self.m, self.decision)
    status,    \* node.status of every node
    memory,    \* node.memory of every node
    network,   \* bag of messages sent and not yet delivered
    alarms,    \* alarms armed with set_alarm and not yet fired
    fatal,     \* the exception that aborted the simulation, or None
    log        \* what the handlers logged (logger.info), as a set

vars == <<params, status, memory, network, alarms, fatal, log>>

\* No exception was raised.
None == "None"

\* The id of a neighbor slot before its neighbor was heard from ("id": None).
NoId == 0

\* ------------------------------------------------------------------ bounds

\* Nodes of an Oral-Messages network.
OMNodes == 4
\* Largest resilience parameter m of an Oral-Messages run.
OMMaxM == 2
\* Nodes of a commit-protocol network (2PC, 3PC): coordinator and participants.
PCNodes == 3
\* Copies of one identical message the network holds at a time; a further
\* copy sent is lost.
MaxCopies == 1

\* ----------------------------------------------------------------- runtime

Nodes == 0 .. (params.n - 1)

\* memory['unique_value'], distinct per node and different from the runtime id.
UniqueValue(i) == i + 1

\* node.neighbors(): every other node (complete topology), in runtime order.
Neighbors(i) == [k \in 1 .. (params.n - 1) |-> IF k - 1 < i THEN k - 1 ELSE k]

\* The runtime-visible identity (source.id) node i has for its neighbor j:
\* the index of j among i's neighbors.
SourceId(i, j) == IF j < i THEN j ELSE j - 1

SeqToSet(s) == {s[k] : k \in 1 .. Len(s)}

RECURSIVE SelectNodes(_, _)
SelectNodes(s, keep) ==
    IF s = <<>> THEN <<>>
    ELSE (IF Head(s) \in keep THEN <<Head(s)>> ELSE <<>>) \o SelectNodes(Tail(s), keep)

\* Message(header, data, destination) as the kernel stamps it on delivery.
Msg(header, data, src, dst) ==
    [header |-> header, data |-> data, source |-> src, destination |-> dst]

\* send_msg to a list of destinations: one copy in flight per destination.
SendTo(net, header, data, src, dsts) ==
    net (+) SetToBag({m \in {Msg(header, data, src, d) : d \in dsts} :
                        CopiesIn(m, net) < MaxCopies})

Take(net, m) == net (-) SetToBag({m})

InFlight == BagToSet(network)

Running == fatal = None

\* set_alarm(node, 20, Message(header=...)): the alarm message; the header is
\* `header` followed by str(id) for the per-neighbor alarms, and
\* int(header.split("_")[-1]) gives id back.
Alarm(i, header, id) == [node |-> i, header |-> header, id |-> id]

\* message.header.startswith("Timeout_")
IsTimeout(header) ==
    header \in {"Timeout_Prepared", "Timeout_Ack_", "Timeout_Done_", "Timeout_Abort_"}

\* The neighbor of i whose runtime id is s ([n for n in node.neighbors() if n.id == s]).
NeighborWithId(i, s) == {j \in Nodes \ {i} : SourceId(i, j) = s}

\* for neighbor_id in node_status.keys(): set_alarm(... f"{header}{neighbor_id}")
ArmAll(i, header, node_status) == {Alarm(i, header, s) : s \in DOMAIN node_status}

\* A message in flight is lost (no TotalReliability among the restrictions).
Lose(msg) ==
    /\ Running
    /\ msg \in InFlight
    /\ network' = Take(network, msg)
    /\ UNCHANGED <<params, status, memory, alarms, fatal, log>>

\* ====================================================================
\* Parte1/byzantine.py
\* ====================================================================

\* ByzantineAlgorithm.initializer: the first node of the shuffled list is the
\* commander, the next m are traitors, the rest lieutenants.
Byzantine_initializer(n, m, d, commander, traitors) ==
    /\ params = [n |-> n, m |-> m, decision |-> d]
    /\ status = [i \in 0 .. (n - 1) |->
                    IF i = commander THEN "COMMANDER"
                    ELSE IF i \in traitors THEN "TRAITOR" ELSE "LIEUTIENANT"]
    /\ memory = [i \in 0 .. (n - 1) |->
                    IF i = commander
                    THEN [neighbors |-> [s \in 0 .. (n - 1) |-> NoId], m |-> m,
                          saved_decisions |-> <<>>, decision |-> d]
                    ELSE [neighbors |-> [s \in 0 .. (n - 1) |-> NoId], m |-> m,
                          saved_decisions |-> <<>>]]
    /\ network = EmptyBag
    /\ alarms = {}
    /\ fatal = None
    /\ log = {}

\* has_all_decisions raises when more decisions than expected were recorded.
TooManyDecisions(decisions, total) == Cardinality(DOMAIN decisions) > total

\* has_all_decisions one short: the fold starts before the last decision.
has_all_decisions_early(decisions, total) == Cardinality(DOMAIN decisions) = total - 1

has_all_decisions(decisions, total) == Cardinality(DOMAIN decisions) = total

\* A majority that takes one dissenting decision for a tie.
majority_decision_unanimous(decisions) ==
    LET retreat_count == Cardinality({k \in DOMAIN decisions : decisions[k] = 0})
    IN  IF retreat_count = 0 THEN 1 ELSE 0

\* majority_decision with the comparison the wrong way round.
majority_decision_swapped(decisions) ==
    LET attack_count  == Cardinality({k \in DOMAIN decisions : decisions[k] = 1})
        retreat_count == Cardinality({k \in DOMAIN decisions : decisions[k] = 0})
    IN  IF attack_count < retreat_count THEN 1 ELSE 0

\* A majority that decides a tie, and the empty map, as attack.
majority_decision_tie(decisions) ==
    LET attack_count  == Cardinality({k \in DOMAIN decisions : decisions[k] = 1})
        retreat_count == Cardinality({k \in DOMAIN decisions : decisions[k] = 0})
    IN  IF attack_count >= retreat_count THEN 1 ELSE 0

majority_decision(decisions) ==
    LET attack_count  == Cardinality({k \in DOMAIN decisions : decisions[k] = 1})
        retreat_count == Cardinality({k \in DOMAIN decisions : decisions[k] = 0})
    IN  IF attack_count > retreat_count THEN 1 ELSE 0

\* dict assignment d[k] = v: the entry of k is v, the other entries are kept.
DictSet(d, k, v) == (k :> v) @@ d

\* process_final_decision, on the entry of `path` in saved_decisions sd of a
\* node with status st.  Result: the node's saved_decisions and status after
\* the folds, and the exception raised on the way (None if none).
RECURSIVE process_final_decision(_, _, _)
process_final_decision(st, sd, path) ==
    LET final_decision == majority_decision(sd[path].decisions)
        father == path[Len(path)]
        parent == SubSeq(path, 1, Len(path) - 1)
    IN  IF Len(path) = 1
        THEN IF st = "TRAITOR"
             THEN [status |-> st, saved |-> sd, raised |-> None]
             ELSE [status |-> IF final_decision = 1 THEN "ATTACK" ELSE "RETREAT",
                   saved |-> sd, raised |-> None]
        ELSE IF parent \notin DOMAIN sd
        THEN [status |-> st, saved |-> sd, raised |-> "KeyError"]
        ELSE LET sd2 == [sd EXCEPT ![parent].decisions = DictSet(@, father, final_decision)]
             IN  IF TooManyDecisions(sd2[parent].decisions, sd2[parent].total)
                 THEN [status |-> st, saved |-> sd2, raised |-> "ValueError"]
                 ELSE IF has_all_decisions(sd2[parent].decisions, sd2[parent].total)
                 THEN process_final_decision(st, sd2, parent)
                 ELSE [status |-> st, saved |-> sd2, raised |-> None]

\* A check that folds the entry whether or not it is complete.
FoldIfComplete_always(st, sd, path) == process_final_decision(st, sd, path)

\* The check that ends received_more_than_one, received_one and received_zero.
FoldIfComplete(st, sd, path) ==
    IF TooManyDecisions(sd[path].decisions, sd[path].total)
    THEN [status |-> st, saved |-> sd, raised |-> "ValueError"]
    ELSE IF has_all_decisions(sd[path].decisions, sd[path].total)
    THEN process_final_decision(st, sd, path)
    ELSE [status |-> st, saved |-> sd, raised |-> None]

\* A new entry that expects one decision fewer than data['n'].
SaveDecision_short(sd, key, id, decision, total) ==
    IF key \in DOMAIN sd
    THEN [sd EXCEPT ![key].decisions = DictSet(@, id, decision)]
    ELSE DictSet(sd, key, [decisions |-> DictSet(<<>>, id, decision), total |-> total - 1])

\* sd.get(key), then the new entry or the assignment into the existing one.
SaveDecision(sd, key, id, decision, total) ==
    IF key \in DOMAIN sd
    THEN [sd EXCEPT ![key].decisions = DictSet(@, id, decision)]
    ELSE DictSet(sd, key, [decisions |-> DictSet(<<>>, id, decision), total |-> total])

\* send_recursion_start's lie: the opposite of the configured decision.
lied_decision == IF params.decision = 0 THEN 1 ELSE 0

\* A traitor that starts no recursion.
send_recursion_start_silent(net, i, data, send_nodes) ==
    IF status[i] = "TRAITOR"
    THEN net
    ELSE SendTo(net, "Decision", data, i, SeqToSet(send_nodes))

\* send_recursion_start: a traitor sends data to the first half of send_nodes
\* and the lie to the second half; any other node sends data to all.
send_recursion_start(net, i, data, send_nodes) ==
    IF status[i] = "TRAITOR"
    THEN LET half == Len(send_nodes) \div 2
             first_half == SubSeq(send_nodes, 1, half)
             second_half == SubSeq(send_nodes, half + 1, Len(send_nodes))
             lied_data == [data EXCEPT !.decision = lied_decision]
         IN  SendTo(SendTo(net, "Decision", data, i, SeqToSet(first_half)),
                    "Decision", lied_data, i, SeqToSet(second_half))
    ELSE SendTo(net, "Decision", data, i, SeqToSet(send_nodes))

\* The neighbors whose learned id is not in the path (an id not learned
\* yet is NoId, which is in no path).
SendNodes(nbrs, i, path) ==
    LET send_ids == {s \in DOMAIN nbrs : nbrs[s] \notin SeqToSet(path)}
    IN  SelectNodes(Neighbors(i), {j \in Nodes \ {i} : SourceId(i, j) \in send_ids})

\* The loop that opens both receiving handlers: the slot of the sender
\* learns the sender's id.
LearnNeighbor(nbrs, i, msg) ==
    IF SourceId(i, msg.source) \in DOMAIN nbrs
    THEN [nbrs EXCEPT ![SourceId(i, msg.source)] = msg.data.id]
    ELSE nbrs

\* received_more_than_one (m > 1), received_one (m = 1), received_zero (m = 0)
\* and what follows them, for node i handling msg.
received(i, msg) ==
    LET data == msg.data
        nbrs == LearnNeighbor(memory[i].neighbors, i, msg)
        me   == UniqueValue(i)
        sd1  == IF data.m = 0
                THEN SaveDecision(memory[i].saved_decisions, data.path, data.id,
                                  data.decision, data.n)
                ELSE SaveDecision(memory[i].saved_decisions, data.path, me,
                                  data.decision, data.n)
        forward_data ==
            IF data.m > 1
            THEN [id |-> me, decision |-> data.decision, m |-> data.m - 1,
                  path |-> Append(data.path, me), n |-> data.n - 1]
            ELSE [id |-> me, decision |-> data.decision, m |-> data.m - 1,
                  path |-> data.path, n |-> data.n]
        net1 == IF data.m >= 1
                THEN send_recursion_start(Take(network, msg), i, forward_data,
                                          SendNodes(nbrs, i, data.path))
                ELSE Take(network, msg)
        res  == FoldIfComplete(status[i], sd1, data.path)
    IN  /\ network' = net1
        /\ memory' = [memory EXCEPT ![i].neighbors = nbrs,
                                    ![i].saved_decisions = res.saved]
        /\ status' = [status EXCEPT ![i] = res.status]
        /\ fatal' = res.raised
        /\ log' = log \cup {[node |-> i, event |-> "received", m |-> data.m,
                             path |-> data.path]}
        /\ UNCHANGED <<params, alarms>>

\* @Status.COMMANDER spontaneously
Byzantine_spontaneously(i) ==
    /\ Running
    /\ status[i] = "COMMANDER"
    /\ LET decision == memory[i].decision
           data == [id |-> UniqueValue(i), decision |-> decision, m |-> memory[i].m,
                    path |-> <<UniqueValue(i)>>,
                    n |-> IF params.m = 0 THEN 1 ELSE params.n - 1]
       IN  network' = SendTo(network, "Decision", data, i, SeqToSet(Neighbors(i)))
    /\ status' = [status EXCEPT ![i] = "DONE"]
    /\ UNCHANGED <<params, memory, alarms, fatal, log>>

\* @Status.TRAITOR receiving
Byzantine_receiving_TRAITOR(msg) ==
    /\ Running
    /\ msg \in InFlight
    /\ status[msg.destination] = "TRAITOR"
    /\ received(msg.destination, msg)

\* @Status.LIEUTIENANT receiving
Byzantine_receiving_LIEUTIENANT(msg) ==
    /\ Running
    /\ msg \in InFlight
    /\ status[msg.destination] = "LIEUTIENANT"
    /\ received(msg.destination, msg)

\* @Status.DONE default: the message is ignored.
Byzantine_default(msg) ==
    /\ Running
    /\ msg \in InFlight
    /\ status[msg.destination] = "DONE"
    /\ network' = Take(network, msg)
    /\ UNCHANGED <<params, status, memory, alarms, fatal, log>>

ByzantineInit ==
    \E m \in 0 .. OMMaxM, d \in {0, 1}, commander \in 0 .. (OMNodes - 1) :
        \E traitors \in SUBSET ((0 .. (OMNodes - 1)) \ {commander}) :
            /\ Cardinality(traitors) = m
            /\ Byzantine_initializer(OMNodes, m, d, commander, traitors)

ByzantineNext ==
    \/ \E i \in Nodes : Byzantine_spontaneously(i)
    \/ \E msg \in InFlight : Byzantine_receiving_TRAITOR(msg)
    \/ \E msg \in InFlight : Byzantine_receiving_LIEUTIENANT(msg)
    \/ \E msg \in InFlight : Byzantine_default(msg)

ByzantineSpec == ByzantineInit /\ [][ByzantineNext]_vars

\* ------------------------------------------------- Oral-Messages properties

Decided(i) == status[i] \in {"ATTACK", "RETREAT"}

Resilient == params.n >= 3 * params.m + 1

Commander == CHOOSE i \in Nodes : "decision" \in DOMAIN memory[i]

\* C1 (agreement): with n >= 3m+1, any two lieutenants that have both reached
\* a final status, ATTACK or RETREAT, have the same final status.
OM_Agreement ==
    Resilient =>
        \A i, j \in Nodes : (Decided(i) /\ Decided(j)) => status[i] = status[j]

\* Two lieutenants have decided in a run with a traitor.
OM_Agreement_Witness ==
    /\ Resilient
    /\ \E t \in Nodes : status[t] = "TRAITOR"
    /\ \E i, j \in Nodes : i # j /\ Decided(i) /\ Decided(j)

\* C2 (validity): with n >= 3m+1, a lieutenant that reaches a final status
\* reaches ATTACK when the commander's decision is 1 and RETREAT when it is 0.
OM_Validity ==
    Resilient =>
        \A i \in Nodes :
            Decided(i) =>
                status[i] = (IF memory[Commander].decision = 1 THEN "ATTACK" ELSE "RETREAT")

\* A lieutenant decided after recording a traitor's lie at the top level.
OM_Validity_Witness ==
    /\ Resilient
    /\ \E i \in Nodes :
         /\ Decided(i)
         /\ \E p \in DOMAIN memory[i].saved_decisions :
              \E k \in DOMAIN memory[i].saved_decisions[p].decisions :
                 memory[i].saved_decisions[p].decisions[k] # memory[Commander].decision

\* C3 (termination): no handler ends in an error, and once every Decision
\* message has been delivered every lieutenant is in ATTACK or RETREAT.
OM_Termination ==
    /\ fatal = None
    /\ (status[Commander] = "DONE" /\ network = EmptyBag) =>
          \A i \in Nodes : status[i] # "LIEUTIENANT"

\* ====================================================================
\* Parte2/twopc.py
\* ====================================================================

\* logger.info of a handler, kept as (node, event).
Logged(i, event) == log \cup {[node |-> i, event |-> event]}

\* TwoPCAlgorithm.initializer (ThreePCAlgorithm.initializer is the same): the
\* first node of the list is the coordinator, the others sleep.
PC_initializer(n, coordinator) ==
    /\ params = [n |-> n]
    /\ status = [i \in 0 .. (n - 1) |-> IF i = coordinator THEN "COORDINATOR" ELSE "SLEEP"]
    /\ memory = [i \in 0 .. (n - 1) |->
                    IF i = coordinator
                    THEN [neighbors |-> [s \in 0 .. (n - 2) |-> NoId], count |-> n - 1,
                          node_status |-> [s \in 0 .. (n - 2) |-> "sleep"]]
                    ELSE [neighbors |-> [s \in 0 .. (n - 2) |-> NoId], count |-> n - 1]]
    /\ network = EmptyBag
    /\ alarms = {}
    /\ fatal = None
    /\ log = {}

\* A resend of Prepare to every neighbor, asleep or not.
ResendPrepare_all(net, i, data) == SendTo(net, "Prepare", data, i, Nodes \ {i})

\* The Prepare the Timeout_Prepared handler sends again: to every neighbor
\* whose node_status is still 'sleep'.
ResendPrepare(net, i, data) ==
    SendTo(net, "Prepare", data, i,
           UNION {NeighborWithId(i, s) : s \in {t \in DOMAIN memory[i].node_status :
                                                    memory[i].node_status[t] = "sleep"}})

\* @Status.COORDINATOR spontaneously
TwoPC_spontaneously(i) ==
    /\ Running
    /\ status[i] = "COORDINATOR"
    /\ network' = SendTo(network, "Prepare", [id |-> UniqueValue(i)], i, SeqToSet(Neighbors(i)))
    /\ alarms' = alarms \cup {Alarm(i, "Timeout_Prepared", NoId)}
    /\ status' = [status EXCEPT ![i] = "COORDINATOR_WAITING_PREPARED"]
    /\ UNCHANGED <<params, memory, fatal, log>>

\* @Status.COORDINATOR_WAITING_PREPARED alarm
TwoPC_alarm_WAITING_PREPARED(a) ==
    /\ Running
    /\ a \in alarms
    /\ status[a.node] = "COORDINATOR_WAITING_PREPARED"
    /\ LET i == a.node
           failed == \E s \in DOMAIN memory[i].node_status : memory[i].node_status[s] = "sleep"
       IN  IF a.header = "Timeout_Prepared"
           THEN /\ network' = ResendPrepare(network, i, [id |-> UniqueValue(i)])
                /\ alarms' = IF failed THEN (alarms \ {a}) \cup {Alarm(i, "Timeout_Prepared", NoId)}
                             ELSE alarms \ {a}
           ELSE /\ network' = network
                /\ alarms' = alarms \ {a}
    /\ UNCHANGED <<params, status, memory, fatal, log>>

\* @Status.COORDINATOR_WAITING_PREPARED receiving
TwoPC_receiving_WAITING_PREPARED(msg) ==
    /\ Running
    /\ msg \in InFlight
    /\ status[msg.destination] = "COORDINATOR_WAITING_PREPARED"
    /\ LET i == msg.destination
           received_id == SourceId(i, msg.source)
           mem1 == [memory[i] EXCEPT !.neighbors = LearnNeighbor(@, i, msg),
                                     !.count = @ - 1]
           mem2 == [mem1 EXCEPT !.node_status = DictSet(@, received_id, "prepared")]
       IN  IF msg.header = "Prepared"
           THEN IF msg.data.decision = 0
                THEN /\ memory' = [memory EXCEPT ![i] =
                            [DictSet(mem1, "decision", "Abort") EXCEPT !.count = params.n - 1]]
                     /\ network' = SendTo(Take(network, msg), "Abort", [id |-> UniqueValue(i)],
                                          i, SeqToSet(Neighbors(i)))
                     /\ alarms' = alarms \cup ArmAll(i, "Timeout_Ack_", mem1.node_status)
                     /\ status' = [status EXCEPT ![i] = "COORDINATOR_WAITING_ACK"]
                ELSE IF mem2.count = 0
                THEN /\ memory' = [memory EXCEPT ![i] =
                            [DictSet(mem2, "decision", "Commit") EXCEPT !.count = params.n - 1]]
                     /\ network' = SendTo(Take(network, msg), "Commit", [id |-> UniqueValue(i)],
                                          i, SeqToSet(Neighbors(i)))
                     /\ alarms' = alarms \cup ArmAll(i, "Timeout_Ack_", mem2.node_status)
                     /\ status' = [status EXCEPT ![i] = "COORDINATOR_WAITING_ACK"]
                ELSE /\ memory' = [memory EXCEPT ![i] = mem2]
                     /\ network' = Take(network, msg)
                     /\ UNCHANGED <<alarms, status>>
           ELSE /\ network' = Take(network, msg)
                /\ UNCHANGED <<memory, alarms, status>>
    /\ UNCHANGED <<params, fatal, log>>

\* @Status.COORDINATOR_WAITING_ACK receiving
TwoPC_receiving_WAITING_ACK(msg) ==
    /\ Running
    /\ msg \in InFlight
    /\ status[msg.destination] = "COORDINATOR_WAITING_ACK"
    /\ LET i == msg.destination
           mem1 == [memory[i] EXCEPT !.count = @ - 1,
                                     !.node_status = DictSet(@, SourceId(i, msg.source), "ack")]
       IN  IF msg.header = "Ack"
           THEN /\ memory' = [memory EXCEPT ![i] = mem1]
                /\ status' = IF mem1.count = 0 THEN [status EXCEPT ![i] = "DONE"] ELSE status
           ELSE UNCHANGED <<memory, status>>
    /\ network' = Take(network, msg)
    /\ UNCHANGED <<params, alarms, fatal, log>>

\* A Timeout_Ack_ handler that resends the decision once and does not arm
\* the alarm again.
TwoPC_alarm_WAITING_ACK_once(a) ==
    /\ Running
    /\ a \in alarms
    /\ status[a.node] = "COORDINATOR_WAITING_ACK"
    /\ LET i == a.node
       IN  network' = IF a.header = "Timeout_Ack_" /\ memory[i].node_status[a.id] # "ack"
                      THEN SendTo(network, memory[i].decision, [id |-> UniqueValue(i)], i,
                                  NeighborWithId(i, a.id))
                      ELSE network
    /\ alarms' = alarms \ {a}
    /\ UNCHANGED <<params, status, memory, fatal, log>>

\* @Status.COORDINATOR_WAITING_ACK alarm
TwoPC_alarm_WAITING_ACK(a) ==
    /\ Running
    /\ a \in alarms
    /\ status[a.node] = "COORDINATOR_WAITING_ACK"
    /\ LET i == a.node
           failed_id == a.id
       IN  IF a.header = "Timeout_Ack_" /\ memory[i].node_status[failed_id] # "ack"
           THEN /\ network' = SendTo(network, memory[i].decision, [id |-> UniqueValue(i)], i,
                                     NeighborWithId(i, failed_id))
                /\ alarms' = (alarms \ {a}) \cup {Alarm(i, "Timeout_Ack_", failed_id)}
           ELSE /\ network' = network
                /\ alarms' = alarms \ {a}
    /\ UNCHANGED <<params, status, memory, fatal, log>>

\* A SLEEP handler that answers every header as it answers Prepare.
TwoPC_receiving_SLEEP_any(msg) ==
    /\ Running
    /\ msg \in InFlight
    /\ status[msg.destination] = "SLEEP"
    /\ LET i == msg.destination
       IN  /\ memory' = [memory EXCEPT ![i].neighbors = LearnNeighbor(@, i, msg)]
           /\ network' = SendTo(Take(network, msg), "Prepared",
                                [id |-> UniqueValue(i), decision |-> 1], i, {msg.source})
           /\ status' = status
    /\ UNCHANGED <<params, alarms, fatal, log>>

\* @Status.SLEEP receiving
TwoPC_receiving_SLEEP(msg) ==
    /\ Running
    /\ msg \in InFlight
    /\ status[msg.destination] = "SLEEP"
    /\ LET i == msg.destination
       IN  /\ memory' = [memory EXCEPT ![i].neighbors = LearnNeighbor(@, i, msg)]
           /\ IF msg.header = "Prepare"
              THEN /\ network' = SendTo(Take(network, msg), "Prepared",
                                        [id |-> UniqueValue(i), decision |-> 1], i, {msg.source})
                   /\ status' = [status EXCEPT ![i] = "WAITING"]
              ELSE /\ network' = Take(network, msg)
                   /\ status' = status
    /\ UNCHANGED <<params, alarms, fatal, log>>

\* @Status.WAITING receiving
TwoPC_receiving_WAITING(msg) ==
    /\ Running
    /\ msg \in InFlight
    /\ status[msg.destination] = "WAITING"
    /\ LET i == msg.destination
       IN  IF msg.header \in {"Commit", "Abort"}
           THEN /\ network' = SendTo(Take(network, msg), "Ack", [id |-> UniqueValue(i)], i,
                                     {msg.source})
                /\ status' = [status EXCEPT ![i] = "DONE"]
                /\ log' = Logged(i, msg.header)
           ELSE IF msg.header = "Prepare"
           THEN /\ network' = SendTo(Take(network, msg), "Prepared",
                                     [id |-> UniqueValue(i), decision |-> 1], i, {msg.source})
                /\ UNCHANGED <<status, log>>
           ELSE /\ network' = Take(network, msg)
                /\ UNCHANGED <<status, log>>
    /\ UNCHANGED <<params, memory, alarms, fatal>>

\* A DONE handler that answers a Commit or Abort as a WAITING node answers a
\* Prepare.
TwoPC_default_votes_again(msg) ==
    /\ Running
    /\ msg \in InFlight
    /\ status[msg.destination] = "DONE"
    /\ network' = SendTo(Take(network, msg), "Prepared",
                         [id |-> UniqueValue(msg.destination), decision |-> 1],
                         msg.destination, {msg.source})
    /\ UNCHANGED <<params, status, memory, alarms, fatal, log>>

\* @Status.DONE default, for a message.
TwoPC_default(msg) ==
    /\ Running
    /\ msg \in InFlight
    /\ status[msg.destination] = "DONE"
    /\ LET i == msg.destination
       IN  IF IsTimeout(msg.header)
           THEN /\ network' = Take(network, msg)
                /\ fatal' = fatal
           ELSE IF msg.header \in {"Commit", "Abort"}
           THEN /\ network' = SendTo(Take(network, msg), "Ack", [id |-> UniqueValue(i)], i,
                                     {msg.source})
                /\ fatal' = fatal
           ELSE /\ network' = Take(network, msg)
                /\ fatal' = "Exception"
    /\ UNCHANGED <<params, status, memory, alarms, log>>

\* @Status.DONE default, for an alarm: a Timeout_ header is ignored.
TwoPC_default_alarm(a) ==
    /\ Running
    /\ a \in alarms
    /\ status[a.node] = "DONE"
    /\ alarms' = alarms \ {a}
    /\ fatal' = IF IsTimeout(a.header) THEN fatal ELSE "Exception"
    /\ UNCHANGED <<params, status, memory, network, log>>

TwoPCInit == \E coordinator \in 0 .. (PCNodes - 1) : PC_initializer(PCNodes, coordinator)

TwoPCNext ==
    \/ \E i \in Nodes : TwoPC_spontaneously(i)
    \/ \E a \in alarms : TwoPC_alarm_WAITING_PREPARED(a)
    \/ \E msg \in InFlight : TwoPC_receiving_WAITING_PREPARED(msg)
    \/ \E msg \in InFlight : TwoPC_receiving_WAITING_ACK(msg)
    \/ \E a \in alarms : TwoPC_alarm_WAITING_ACK(a)
    \/ \E msg \in InFlight : TwoPC_receiving_SLEEP(msg)
    \/ \E msg \in InFlight : TwoPC_receiving_WAITING(msg)
    \/ \E msg \in InFlight : TwoPC_default(msg)
    \/ \E a \in alarms : TwoPC_default_alarm(a)
    \/ \E msg \in InFlight : Lose(msg)

TwoPCSpec == TwoPCInit /\ [][TwoPCNext]_vars

\* The node that was started as COORDINATOR.
Coordinator == CHOOSE i \in Nodes : "node_status" \in DOMAIN memory[i]

Participants == Nodes \ {Coordinator}

\* Nothing is left to happen: the coordinator has started, no message is in
\* flight and no alarm is pending.
Quiescent ==
    /\ status[Coordinator] # "COORDINATOR"
    /\ network = EmptyBag
    /\ alarms = {}

AllDone == \A i \in Nodes : status[i] = "DONE"

\* C6: 2PC termination. No handler raises, and a run that has nothing left to
\* do (no message in flight, no alarm pending) has every node in DONE and the
\* coordinator's memory decision equal to "Commit".
TwoPC_Termination ==
    /\ fatal = None
    /\ Quiescent =>
          /\ AllDone
          /\ "decision" \in DOMAIN memory[Coordinator]
          /\ memory[Coordinator].decision = "Commit"

\* ====================================================================
\* Parte2/threepc.py
\* ====================================================================

\* node.memory['count'] = len(node.memory['neighbors']): the number of replies
\* the 3PC coordinator waits for in the phase it enters.
ThreePC_count_reset_short == params.n - 2

ThreePC_count_reset == params.n - 1

\* self.send_msg(Abort to all), the Timeout_Abort_ alarms, count and status of
\* the two places where the 3PC coordinator aborts.
ThreePC_abort(i, mem, net, data, event) ==
    /\ memory' = [memory EXCEPT ![i] = [mem EXCEPT !.count = ThreePC_count_reset]]
    /\ network' = SendTo(net, "Abort", data, i, SeqToSet(Neighbors(i)))
    /\ alarms' = (alarms \ event) \cup ArmAll(i, "Timeout_Abort_", mem.node_status)
    /\ status' = [status EXCEPT ![i] = "COORDINATOR_ABORTING"]

\* @Status.COORDINATOR spontaneously
ThreePC_spontaneously(i) ==
    /\ Running
    /\ status[i] = "COORDINATOR"
    /\ network' = SendTo(network, "Prepare", [id |-> UniqueValue(i)], i, SeqToSet(Neighbors(i)))
    /\ alarms' = alarms \cup {Alarm(i, "Timeout_Prepared", NoId)}
    /\ status' = [status EXCEPT ![i] = "COORDINATOR_WAITING_PREPARED"]
    /\ UNCHANGED <<params, memory, fatal, log>>

\* @Status.COORDINATOR_WAITING_PREPARED alarm
ThreePC_alarm_WAITING_PREPARED(a) ==
    /\ Running
    /\ a \in alarms
    /\ status[a.node] = "COORDINATOR_WAITING_PREPARED"
    /\ LET i == a.node
           failed == \E s \in DOMAIN memory[i].node_status : memory[i].node_status[s] = "sleep"
       IN  IF a.header = "Timeout_Prepared"
           THEN /\ network' = ResendPrepare(network, i, [id |-> UniqueValue(i)])
                /\ alarms' = IF failed THEN (alarms \ {a}) \cup {Alarm(i, "Timeout_Prepared", NoId)}
                             ELSE alarms \ {a}
           ELSE /\ network' = network
                /\ alarms' = alarms \ {a}
    /\ UNCHANGED <<params, status, memory, fatal, log>>

\* @Status.COORDINATOR_WAITING_PREPARED receiving
ThreePC_receiving_WAITING_PREPARED(msg) ==
    /\ Running
    /\ msg \in InFlight
    /\ status[msg.destination] = "COORDINATOR_WAITING_PREPARED"
    /\ LET i == msg.destination
           received_id == SourceId(i, msg.source)
           mem1 == [memory[i] EXCEPT !.neighbors = LearnNeighbor(@, i, msg),
                                     !.count = @ - 1]
           mem2 == [mem1 EXCEPT !.node_status = DictSet(@, received_id, "prepared")]
       IN  IF msg.header = "Prepared"
           THEN IF msg.data.decision = 0
                THEN ThreePC_abort(i, mem1, Take(network, msg), [id |-> msg.data.id], {})
                ELSE IF mem2.count = 0
                THEN /\ memory' = [memory EXCEPT ![i] = [mem2 EXCEPT !.count = ThreePC_count_reset]]
                     /\ network' = SendTo(Take(network, msg), "PreCommit",
                                          [id |-> UniqueValue(i)], i, SeqToSet(Neighbors(i)))
                     /\ alarms' = alarms \cup ArmAll(i, "Timeout_Ack_", mem2.node_status)
                     /\ status' = [status EXCEPT ![i] = "COORDINATOR_WAITING_ACK"]
                ELSE /\ memory' = [memory EXCEPT ![i] = mem2]
                     /\ network' = Take(network, msg)
                     /\ UNCHANGED <<alarms, status>>
           ELSE /\ network' = Take(network, msg)
                /\ UNCHANGED <<memory, alarms, status>>
    /\ UNCHANGED <<params, fatal, log>>

\* @Status.COORDINATOR_WAITING_ACK receiving
ThreePC_receiving_WAITING_ACK(msg) ==
    /\ Running
    /\ msg \in InFlight
    /\ status[msg.destination] = "COORDINATOR_WAITING_ACK"
    /\ LET i == msg.destination
           mem1 == [memory[i] EXCEPT !.count = @ - 1,
                                     !.node_status = DictSet(@, SourceId(i, msg.source), "ack")]
       IN  IF msg.header = "Ack"
           THEN IF mem1.count = 0
                THEN /\ memory' = [memory EXCEPT ![i] = [mem1 EXCEPT !.count = ThreePC_count_reset]]
                     /\ network' = SendTo(Take(network, msg), "Commit",
                                          [id |-> UniqueValue(i)], i, SeqToSet(Neighbors(i)))
                     /\ alarms' = alarms \cup ArmAll(i, "Timeout_Done_", mem1.node_status)
                     /\ status' = [status EXCEPT ![i] = "COORDINATOR_WAITING_DONE"]
                ELSE /\ memory' = [memory EXCEPT ![i] = mem1]
                     /\ network' = Take(network, msg)
                     /\ UNCHANGED <<alarms, status>>
           ELSE /\ network' = Take(network, msg)
                /\ UNCHANGED <<memory, alarms, status>>
    /\ UNCHANGED <<params, fatal, log>>

\* A COORDINATOR_WAITING_ACK alarm that retries on a missing Ack, the way the
\* 2PC coordinator retries: PreCommit is sent again and nothing is aborted.
ThreePC_alarm_WAITING_ACK_resends(a) ==
    /\ Running
    /\ a \in alarms
    /\ status[a.node] = "COORDINATOR_WAITING_ACK"
    /\ LET i == a.node
           failed_id == a.id
       IN  network' = IF a.header = "Timeout_Ack_" /\ memory[i].node_status[failed_id] # "ack"
                      THEN SendTo(network, "PreCommit", [id |-> UniqueValue(i)], i,
                                  NeighborWithId(i, failed_id))
                      ELSE network
    /\ alarms' = alarms \ {a}
    /\ UNCHANGED <<params, status, memory, fatal, log>>

\* @Status.COORDINATOR_WAITING_ACK alarm
ThreePC_alarm_WAITING_ACK(a) ==
    /\ Running
    /\ a \in alarms
    /\ status[a.node] = "COORDINATOR_WAITING_ACK"
    /\ LET i == a.node
           failed_id == a.id
       IN  IF a.header = "Timeout_Ack_" /\ memory[i].node_status[failed_id] # "ack"
           THEN /\ ThreePC_abort(i, memory[i], network, [id |-> UniqueValue(i)], {a})
                /\ log' = Logged(i, "timed out waiting for ACK")
           ELSE /\ alarms' = alarms \ {a}
                /\ UNCHANGED <<memory, network, status, log>>
    /\ UNCHANGED <<params, fatal>>

\* @Status.COORDINATOR_WAITING_DONE receiving
ThreePC_receiving_WAITING_DONE(msg) ==
    /\ Running
    /\ msg \in InFlight
    /\ status[msg.destination] = "COORDINATOR_WAITING_DONE"
    /\ LET i == msg.destination
           mem1 == [memory[i] EXCEPT !.count = @ - 1,
                                     !.node_status = DictSet(@, SourceId(i, msg.source), "done")]
       IN  IF msg.header = "Done"
           THEN /\ memory' = [memory EXCEPT ![i] = mem1]
                /\ status' = IF mem1.count = 0 THEN [status EXCEPT ![i] = "DONE"] ELSE status
                /\ log' = IF mem1.count = 0 THEN Logged(i, "received DONE from all") ELSE log
           ELSE UNCHANGED <<memory, status, log>>
    /\ network' = Take(network, msg)
    /\ UNCHANGED <<params, alarms, fatal>>

\* A COORDINATOR_WAITING_DONE alarm that aborts on a missing Done, the way the
\* COORDINATOR_WAITING_ACK alarm aborts on a missing Ack.
ThreePC_alarm_WAITING_DONE_aborts(a) ==
    /\ Running
    /\ a \in alarms
    /\ status[a.node] = "COORDINATOR_WAITING_DONE"
    /\ LET i == a.node
           failed_id == a.id
       IN  IF a.header = "Timeout_Done_" /\ memory[i].node_status[failed_id] # "done"
           THEN ThreePC_abort(i, memory[i], network, [id |-> UniqueValue(i)], {a})
           ELSE /\ alarms' = alarms \ {a}
                /\ UNCHANGED <<memory, network, status>>
    /\ UNCHANGED <<params, fatal, log>>

\* @Status.COORDINATOR_WAITING_DONE alarm: Commit is sent again, the alarm is not.
ThreePC_alarm_WAITING_DONE(a) ==
    /\ Running
    /\ a \in alarms
    /\ status[a.node] = "COORDINATOR_WAITING_DONE"
    /\ LET i == a.node
           failed_id == a.id
       IN  network' = IF a.header = "Timeout_Done_" /\ memory[i].node_status[failed_id] # "done"
                      THEN SendTo(network, "Commit", [id |-> UniqueValue(i)], i,
                                  NeighborWithId(i, failed_id))
                      ELSE network
    /\ alarms' = alarms \ {a}
    /\ UNCHANGED <<params, status, memory, fatal, log>>

\* @Status.COORDINATOR_ABORTING receiving
ThreePC_receiving_ABORTING(msg) ==
    /\ Running
    /\ msg \in InFlight
    /\ status[msg.destination] = "COORDINATOR_ABORTING"
    /\ LET i == msg.destination
           mem1 == [memory[i] EXCEPT !.count = @ - 1,
                                     !.node_status = DictSet(@, SourceId(i, msg.source), "aborted")]
       IN  IF msg.header = "Aborted"
           THEN /\ memory' = [memory EXCEPT ![i] = mem1]
                /\ status' = IF mem1.count = 0 THEN [status EXCEPT ![i] = "DONE"] ELSE status
                /\ log' = IF mem1.count = 0 THEN Logged(i, "received Aborted from all") ELSE log
           ELSE UNCHANGED <<memory, status, log>>
    /\ network' = Take(network, msg)
    /\ UNCHANGED <<params, alarms, fatal>>

\* @Status.COORDINATOR_ABORTING alarm
ThreePC_alarm_ABORTING(a) ==
    /\ Running
    /\ a \in alarms
    /\ status[a.node] = "COORDINATOR_ABORTING"
    /\ LET i == a.node
           failed_id == a.id
       IN  IF a.header = "Timeout_Abort_" /\ memory[i].node_status[failed_id] # "aborted"
           THEN /\ alarms' = (alarms \ {a}) \cup {Alarm(i, "Timeout_Abort_", failed_id)}
                /\ network' = SendTo(network, "Abort", [id |-> UniqueValue(i)], i,
                                     NeighborWithId(i, failed_id))
           ELSE /\ alarms' = alarms \ {a}
                /\ network' = network
    /\ UNCHANGED <<params, status, memory, fatal, log>>

\* @Status.SLEEP receiving
ThreePC_receiving_SLEEP(msg) ==
    /\ Running
    /\ msg \in InFlight
    /\ status[msg.destination] = "SLEEP"
    /\ LET i == msg.destination
       IN  /\ memory' = [memory EXCEPT ![i].neighbors = LearnNeighbor(@, i, msg)]
           /\ IF msg.header = "Prepare"
              THEN /\ network' = SendTo(Take(network, msg), "Prepared",
                                        [id |-> UniqueValue(i), decision |-> 1], i, {msg.source})
                   /\ status' = [status EXCEPT ![i] = "WAITING_PRECOMMIT"]
              ELSE /\ network' = Take(network, msg)
                   /\ status' = status
    /\ UNCHANGED <<params, alarms, fatal, log>>

\* @Status.WAITING_PRECOMMIT receiving
ThreePC_receiving_WAITING_PRECOMMIT(msg) ==
    /\ Running
    /\ msg \in InFlight
    /\ status[msg.destination] = "WAITING_PRECOMMIT"
    /\ LET i == msg.destination
       IN  IF msg.header = "PreCommit"
           THEN /\ network' = SendTo(Take(network, msg), "Ack", [id |-> UniqueValue(i)], i,
                                     {msg.source})
                /\ status' = [status EXCEPT ![i] = "WAITING"]
                /\ log' = Logged(i, "PreCommit")
           ELSE IF msg.header = "Abort"
           THEN /\ network' = SendTo(Take(network, msg), "Aborted", [id |-> UniqueValue(i)], i,
                                     {msg.source})
                /\ status' = [status EXCEPT ![i] = "DONE"]
                /\ log' = Logged(i, "Abort")
           ELSE IF msg.header = "Prepare"
           THEN /\ network' = SendTo(Take(network, msg), "Prepared",
                                     [id |-> UniqueValue(i), decision |-> 1], i, {msg.source})
                /\ UNCHANGED <<status, log>>
           ELSE /\ network' = Take(network, msg)
                /\ UNCHANGED <<status, log>>
    /\ UNCHANGED <<params, memory, alarms, fatal>>

\* @Status.WAITING receiving
ThreePC_receiving_WAITING(msg) ==
    /\ Running
    /\ msg \in InFlight
    /\ status[msg.destination] = "WAITING"
    /\ LET i == msg.destination
       IN  IF msg.header = "Commit"
           THEN /\ network' = SendTo(Take(network, msg), "Done", [id |-> UniqueValue(i)], i,
                                     {msg.source})
                /\ status' = [status EXCEPT ![i] = "DONE"]
                /\ log' = Logged(i, "Commit")
           ELSE IF msg.header = "Abort"
           THEN /\ network' = SendTo(Take(network, msg), "Aborted", [id |-> UniqueValue(i)], i,
                                     {msg.source})
                /\ status' = [status EXCEPT ![i] = "DONE"]
                /\ log' = Logged(i, "Abort")
           ELSE IF msg.header = "PreCommit"
           THEN /\ network' = SendTo(Take(network, msg), "Ack",
                                     [id |-> UniqueValue(i), decision |-> 1], i, {msg.source})
                /\ UNCHANGED <<status, log>>
           ELSE /\ network' = Take(network, msg)
                /\ UNCHANGED <<status, log>>
    /\ UNCHANGED <<params, memory, alarms, fatal>>

\* The reply of a 3PC node in DONE to a duplicate Commit.
ThreePC_done_reply_to_commit == "Ack"

\* @Status.DONE default, for a message.
ThreePC_default(msg) ==
    /\ Running
    /\ msg \in InFlight
    /\ status[msg.destination] = "DONE"
    /\ LET i == msg.destination
       IN  IF IsTimeout(msg.header)
           THEN /\ network' = Take(network, msg)
                /\ fatal' = fatal
           ELSE IF msg.header = "Commit"
           THEN /\ network' = SendTo(Take(network, msg), ThreePC_done_reply_to_commit,
                                     [id |-> UniqueValue(i)], i, {msg.source})
                /\ fatal' = fatal
           ELSE IF msg.header = "Abort"
           THEN /\ network' = SendTo(Take(network, msg), "Aborted", [id |-> UniqueValue(i)], i,
                                     {msg.source})
                /\ fatal' = fatal
           ELSE /\ network' = Take(network, msg)
                /\ fatal' = "Exception"
    /\ UNCHANGED <<params, status, memory, alarms, log>>

\* @Status.DONE default, for an alarm: a Timeout_ header is ignored.
ThreePC_default_alarm(a) ==
    /\ Running
    /\ a \in alarms
    /\ status[a.node] = "DONE"
    /\ alarms' = alarms \ {a}
    /\ fatal' = IF IsTimeout(a.header) THEN fatal ELSE "Exception"
    /\ UNCHANGED <<params, status, memory, network, log>>

ThreePCInit == \E coordinator \in 0 .. (PCNodes - 1) : PC_initializer(PCNodes, coordinator)

ThreePCNext ==
    \/ \E i \in Nodes : ThreePC_spontaneously(i)
    \/ \E a \in alarms : ThreePC_alarm_WAITING_PREPARED(a)
    \/ \E msg \in InFlight : ThreePC_receiving_WAITING_PREPARED(msg)
    \/ \E msg \in InFlight : ThreePC_receiving_WAITING_ACK(msg)
    \/ \E a \in alarms : ThreePC_alarm_WAITING_ACK(a)
    \/ \E msg \in InFlight : ThreePC_receiving_WAITING_DONE(msg)
    \/ \E a \in alarms : ThreePC_alarm_WAITING_DONE(a)
    \/ \E msg \in InFlight : ThreePC_receiving_ABORTING(msg)
    \/ \E a \in alarms : ThreePC_alarm_ABORTING(a)
    \/ \E msg \in InFlight : ThreePC_receiving_SLEEP(msg)
    \/ \E msg \in InFlight : ThreePC_receiving_WAITING_PRECOMMIT(msg)
    \/ \E msg \in InFlight : ThreePC_receiving_WAITING(msg)
    \/ \E msg \in InFlight : ThreePC_default(msg)
    \/ \E a \in alarms : ThreePC_default_alarm(a)
    \/ \E msg \in InFlight : Lose(msg)

ThreePCSpec == ThreePCInit /\ [][ThreePCNext]_vars

\* --------------------------------------------------------------------
\* 3PC properties
\* --------------------------------------------------------------------

\* The participant has handled the message with this header in the status
\* where it makes the participant act (PreCommit, Commit or Abort).
Handled(p, header) == [node |-> p, event |-> header] \in log

\* The coordinator went from COORDINATOR_WAITING_DONE to DONE.
DoneThroughCommit == [node |-> Coordinator, event |-> "received DONE from all"] \in log

\* The coordinator went from COORDINATOR_ABORTING to DONE.
DoneThroughAbort == [node |-> Coordinator, event |-> "received Aborted from all"] \in log

\* The coordinator took the Timeout_Ack transition to COORDINATOR_ABORTING.
TimedOutOnAck == [node |-> Coordinator, event |-> "timed out waiting for ACK"] \in log

\* C4: 3PC commit/abort exclusion. If the coordinator reached DONE through
\* COORDINATOR_WAITING_DONE then no participant handled Abort, and if it reached
\* DONE through COORDINATOR_ABORTING then no participant handled Commit, whatever
\* was lost, delayed or retransmitted.
ThreePC_Exclusion ==
    /\ DoneThroughCommit => \A p \in Participants : ~Handled(p, "Abort")
    /\ DoneThroughAbort => \A p \in Participants : ~Handled(p, "Commit")

\* The coordinator is DONE through COORDINATOR_ABORTING after a Timeout_Ack,
\* and every participant handled Abort, one of them after it had handled
\* PreCommit.
ThreePC_Exclusion_Witness ==
    /\ status[Coordinator] = "DONE"
    /\ DoneThroughAbort
    /\ TimedOutOnAck
    /\ \A p \in Participants : Handled(p, "Abort")
    /\ \E p \in Participants : Handled(p, "PreCommit")

\* A Commit message is, or has been, in the system.
CommitExists ==
    \/ \E msg \in InFlight : msg.header = "Commit"
    \/ \E p \in Participants : Handled(p, "Commit")
    \/ status[Coordinator] = "COORDINATOR_WAITING_DONE"
    \/ DoneThroughCommit

\* C5: once the coordinator has taken the Timeout_Ack transition from
\* COORDINATOR_WAITING_ACK to COORDINATOR_ABORTING no participant has handled a
\* Commit, and no Commit message exists until every participant has left
\* WAITING_PRECOMMIT by handling PreCommit.
ThreePC_NoCommitBeforePreCommit ==
    /\ TimedOutOnAck => \A p \in Participants : ~Handled(p, "Commit")
    /\ CommitExists => \A p \in Participants : Handled(p, "PreCommit")

\* A Commit is in flight to a participant that is in WAITING after PreCommit.
ThreePC_NoCommitBeforePreCommit_Witness ==
    /\ \E msg \in InFlight : msg.header = "Commit" /\ status[msg.destination] = "WAITING"
    /\ \A p \in Participants : Handled(p, "PreCommit")

\* C7: 3PC termination with a lost Done. When every participant has handled
\* Commit and is DONE, and nothing is left to happen (no message in flight, no
\* alarm pending, no exception), the coordinator is DONE too.
ThreePC_LostDoneRecovered ==
    (/\ fatal = None
     /\ Quiescent
     /\ \A p \in Participants : status[p] = "DONE" /\ Handled(p, "Commit"))
    => status[Coordinator] = "DONE"

\* --------------------------------------------------------------------
\* 3PC with one lost Ack
\* --------------------------------------------------------------------

AckLossNodes == 4

\* The Ack of one participant is lost on its way to the coordinator in
\* COORDINATOR_WAITING_ACK; no other message is lost.
LoseAck(msg) ==
    /\ Running
    /\ msg \in InFlight
    /\ msg.header = "Ack"
    /\ status[msg.destination] = "COORDINATOR_WAITING_ACK"
    /\ \A p \in Nodes : ~Handled(p, "Ack lost")
    /\ network' = Take(network, msg)
    /\ log' = Logged(msg.source, "Ack lost")
    /\ UNCHANGED <<params, status, memory, alarms, fatal>>

\* set_alarm(node, 20, ...): an alarm is due 20 ticks after it was armed, a
\* message is delivered on the tick after it was sent, so an alarm fires when
\* every message sent before it has been delivered.
AlarmDue == network = EmptyBag

ThreePCAckLossInit ==
    \E coordinator \in 0 .. (AckLossNodes - 1) : PC_initializer(AckLossNodes, coordinator)

ThreePCAckLossNext ==
    \/ \E i \in Nodes : ThreePC_spontaneously(i)
    \/ \E msg \in InFlight : ThreePC_receiving_WAITING_PREPARED(msg)
    \/ \E msg \in InFlight : ThreePC_receiving_WAITING_ACK(msg)
    \/ \E a \in alarms : AlarmDue /\ ThreePC_alarm_WAITING_ACK(a)
    \/ \E msg \in InFlight : ThreePC_receiving_WAITING_DONE(msg)
    \/ \E msg \in InFlight : ThreePC_receiving_ABORTING(msg)
    \/ \E msg \in InFlight : ThreePC_receiving_SLEEP(msg)
    \/ \E msg \in InFlight : ThreePC_receiving_WAITING_PRECOMMIT(msg)
    \/ \E msg \in InFlight : ThreePC_receiving_WAITING(msg)
    \/ \E a \in alarms : AlarmDue /\ ThreePC_default_alarm(a)
    \/ \E msg \in InFlight : LoseAck(msg)

\* Every step that can be taken is eventually taken: the simulator delivers
\* every message and fires every alarm.
ThreePCAckLossSpec ==
    ThreePCAckLossInit /\ [][ThreePCAckLossNext]_vars /\ WF_vars(ThreePCAckLossNext)

AckLost == \E p \in Participants : Handled(p, "Ack lost")

B3PCNodes == 4
\* Largest number m of FAULTY nodes of a Byzantine 3PC run.
B3PCMaxM == 1
\* Nodes of the shuffled list that may come first and be the coordinator.
B3PCCoordinators == 1

\* node.memory['private_key'] = f"key_{unique_value}"
private_key(i) == <<"key", UniqueValue(i)>>

\* A signature that does not depend on the key of the signer.
sign_message_keyless(i, message_data) == <<message_data, <<"key", 1>>>>

\* sign_message: the hash of f"{message_data}:{private_key}", which determines
\* both the signed string and the key.
sign_message(i, message_data) == <<message_data, memory[i].private_key>>

\* A verification that accepts every signature.
verify_signature_any(message_data, signature, sender_id) == TRUE

\* verify_signature: the signature is the hash of f"{message_data}:key_{sender_id}".
verify_signature(message_data, signature, sender_id) ==
    signature = <<message_data, <<"key", sender_id>>>>

\* The data of a message an honest handler signs: {"id", "signature"}.
Signed(i, word) ==
    [id |-> UniqueValue(i), signature |-> sign_message(i, <<word, UniqueValue(i)>>)]

\* The data of a Prepared vote: {"id", "decision", "signature"}.
SignedPrepared(i, decision) ==
    [id |-> UniqueValue(i), decision |-> decision,
     signature |-> sign_message(i, <<"prepared", UniqueValue(i), decision>>)]

\* ThreePCByzantineAlgorithm.initializer: the first node is the coordinator,
\* the next m nodes of the shuffled list are FAULTY, the others sleep.
ThreePCByzantine_initializer(n, m, coordinator, faulty) ==
    /\ params = [n |-> n, m |-> m]
    /\ status = [i \in 0 .. (n - 1) |->
                    IF i = coordinator THEN "COORDINATOR"
                    ELSE IF i \in faulty THEN "FAULTY" ELSE "SLEEP"]
    /\ memory = [i \in 0 .. (n - 1) |->
                    [prepare_votes |-> << >>, ack_votes |-> << >>,
                     node_status |-> << >>, private_key |-> <<"key", i + 1>>]]
    /\ network = EmptyBag
    /\ alarms = {}
    /\ fatal = None
    /\ log = {[node |-> f, event |-> "initialized as FAULTY"] : f \in faulty}
             \cup {[node |-> coordinator, event |-> "initialized as COORDINATOR"]}

\* The node was not initialized as FAULTY.
Honest(i) == [node |-> i, event |-> "initialized as FAULTY"] \notin log

\* A count of the recorded neighbors that ignores what was recorded.
CountStatus_any(node_status, value) == Cardinality(DOMAIN node_status)

\* How many neighbors the coordinator has recorded with this status.
CountStatus(node_status, value) ==
    Cardinality({s \in DOMAIN node_status : node_status[s] = value})

\* send_abort
send_abort(i, mem, net, fired) ==
    /\ memory' = [memory EXCEPT ![i] = mem]
    /\ network' = SendTo(net, "Abort", Signed(i, "abort"), i, SeqToSet(Neighbors(i)))
    /\ alarms' = (alarms \ fired) \cup ArmAll(i, "Timeout_Abort_", mem.node_status)
    /\ status' = [status EXCEPT ![i] = "COORDINATOR_ABORTING"]

\* @Status.COORDINATOR spontaneously
ThreePCByzantine_spontaneously(i) ==
    /\ Running
    /\ status[i] = "COORDINATOR"
    /\ memory' = [memory EXCEPT ![i].node_status =
                     [s \in {SourceId(i, j) : j \in Nodes \ {i}} |-> "sleep"]]
    /\ network' = SendTo(network, "Prepare", Signed(i, "prepare"), i, SeqToSet(Neighbors(i)))
    /\ alarms' = alarms \cup {Alarm(i, "Timeout_Prepared", NoId)}
    /\ status' = [status EXCEPT ![i] = "COORDINATOR_WAITING_PREPARED"]
    /\ UNCHANGED <<params, fatal, log>>

\* @Status.COORDINATOR_WAITING_PREPARED alarm
ThreePCByzantine_alarm_WAITING_PREPARED(a) ==
    /\ Running
    /\ a \in alarms
    /\ status[a.node] = "COORDINATOR_WAITING_PREPARED"
    /\ LET i == a.node
           asleep == {s \in DOMAIN memory[i].node_status : memory[i].node_status[s] = "sleep"}
       IN  IF a.header = "Timeout_Prepared"
           THEN /\ network' = SendTo(network, "Prepare", Signed(i, "prepare"), i,
                                     {j \in Nodes \ {i} : SourceId(i, j) \in asleep})
                /\ alarms' = IF asleep # {}
                             THEN (alarms \ {a}) \cup {Alarm(i, "Timeout_Prepared", NoId)}
                             ELSE alarms \ {a}
           ELSE /\ network' = network
                /\ alarms' = alarms \ {a}
    /\ UNCHANGED <<params, status, memory, fatal, log>>

\* @Status.COORDINATOR_WAITING_PREPARED receiving
ThreePCByzantine_receiving_WAITING_PREPARED(msg) ==
    /\ Running
    /\ msg \in InFlight
    /\ status[msg.destination] = "COORDINATOR_WAITING_PREPARED"
    /\ LET i == msg.destination
           sender_id == SourceId(i, msg.source)
           net == Take(network, msg)
       IN  IF msg.header # "Prepared"
           THEN /\ network' = net
                /\ UNCHANGED <<memory, alarms, status, log>>
           ELSE IF ~verify_signature(<<"prepared", msg.data.id, msg.data.decision>>,
                                     msg.data.signature, msg.data.id)
           THEN /\ network' = net
                /\ log' = Logged(i, "rejects Prepared")
                /\ UNCHANGED <<memory, alarms, status>>
           ELSE LET mem == [memory[i] EXCEPT
                               !.prepare_votes = DictSet(@, msg.data.id,
                                                         <<msg.data.decision, msg.data.signature>>),
                               !.node_status = DictSet(@, sender_id, "prepared")]
                    votes == mem.prepare_votes
                    commit_votes == Cardinality({k \in DOMAIN votes : votes[k][1] = 1})
                IN  /\ log' = log
                    /\ IF msg.data.decision = 0
                       THEN send_abort(i, mem, net, {})
                       ELSE IF Cardinality(DOMAIN votes) >= params.n - 1
                       THEN IF commit_votes >= params.n - 1
                            THEN /\ memory' = [memory EXCEPT ![i] = mem]
                                 /\ network' = SendTo(net, "PreCommit", Signed(i, "precommit"),
                                                      i, SeqToSet(Neighbors(i)))
                                 /\ alarms' = alarms \cup ArmAll(i, "Timeout_Ack_", mem.node_status)
                                 /\ status' = [status EXCEPT ![i] = "COORDINATOR_WAITING_ACK"]
                            ELSE send_abort(i, mem, net, {})
                       ELSE /\ memory' = [memory EXCEPT ![i] = mem]
                            /\ network' = net
                            /\ UNCHANGED <<alarms, status>>
    /\ UNCHANGED <<params, fatal>>

\* @Status.COORDINATOR_WAITING_ACK receiving
ThreePCByzantine_receiving_WAITING_ACK(msg) ==
    /\ Running
    /\ msg \in InFlight
    /\ status[msg.destination] = "COORDINATOR_WAITING_ACK"
    /\ LET i == msg.destination
           sender_id == SourceId(i, msg.source)
           net == Take(network, msg)
       IN  IF msg.header # "Ack"
           THEN /\ network' = net
                /\ UNCHANGED <<memory, alarms, status, log>>
           ELSE IF ~verify_signature(<<"ack", msg.data.id>>, msg.data.signature, msg.data.id)
           THEN /\ network' = net
                /\ log' = Logged(i, "rejects Ack")
                /\ UNCHANGED <<memory, alarms, status>>
           ELSE LET mem == [memory[i] EXCEPT
                               !.ack_votes = DictSet(@, msg.data.id, msg.data.signature),
                               !.node_status = DictSet(@, sender_id, "ack")]
                IN  /\ log' = log
                    /\ memory' = [memory EXCEPT ![i] = mem]
                    /\ IF Cardinality(DOMAIN mem.ack_votes) >= params.n - 1
                       THEN /\ network' = SendTo(net, "Commit", Signed(i, "commit"), i,
                                                 SeqToSet(Neighbors(i)))
                            /\ alarms' = alarms \cup ArmAll(i, "Timeout_Done_", mem.node_status)
                            /\ status' = [status EXCEPT ![i] = "COORDINATOR_WAITING_DONE"]
                       ELSE /\ network' = net
                            /\ UNCHANGED <<alarms, status>>
    /\ UNCHANGED <<params, fatal>>

\* @Status.COORDINATOR_WAITING_ACK alarm
ThreePCByzantine_alarm_WAITING_ACK(a) ==
    /\ Running
    /\ a \in alarms
    /\ status[a.node] = "COORDINATOR_WAITING_ACK"
    /\ LET i == a.node
       IN  IF a.header = "Timeout_Ack_" /\ memory[i].node_status[a.id] # "ack"
           THEN send_abort(i, memory[i], network, {a})
           ELSE /\ alarms' = alarms \ {a}
                /\ UNCHANGED <<memory, network, status>>
    /\ UNCHANGED <<params, fatal, log>>

\* @Status.COORDINATOR_WAITING_DONE receiving
ThreePCByzantine_receiving_WAITING_DONE(msg) ==
    /\ Running
    /\ msg \in InFlight
    /\ status[msg.destination] = "COORDINATOR_WAITING_DONE"
    /\ LET i == msg.destination
           sender_id == SourceId(i, msg.source)
       IN  IF msg.header # "Done"
           THEN UNCHANGED <<memory, status, log>>
           ELSE IF ~verify_signature(<<"done", msg.data.id>>, msg.data.signature, msg.data.id)
           THEN /\ log' = Logged(i, "rejects Done")
                /\ UNCHANGED <<memory, status>>
           ELSE LET mem == [memory[i] EXCEPT !.node_status = DictSet(@, sender_id, "done")]
                IN  /\ log' = log
                    /\ memory' = [memory EXCEPT ![i] = mem]
                    /\ status' = IF CountStatus(mem.node_status, "done") >= params.n - 1
                                 THEN [status EXCEPT ![i] = "DONE"]
                                 ELSE status
    /\ network' = Take(network, msg)
    /\ UNCHANGED <<params, alarms, fatal>>

\* A Timeout_Done_ handler that resends Commit whatever node_status records.
ThreePCByzantine_alarm_WAITING_DONE_always(a) ==
    /\ Running
    /\ a \in alarms
    /\ status[a.node] = "COORDINATOR_WAITING_DONE"
    /\ LET i == a.node
       IN  IF a.header = "Timeout_Done_"
           THEN /\ network' = SendTo(network, "Commit", Signed(i, "commit"), i,
                                     NeighborWithId(i, a.id))
                /\ alarms' = alarms
           ELSE /\ network' = network
                /\ alarms' = alarms \ {a}
    /\ UNCHANGED <<params, status, memory, fatal, log>>

\* @Status.COORDINATOR_WAITING_DONE alarm
ThreePCByzantine_alarm_WAITING_DONE(a) ==
    /\ Running
    /\ a \in alarms
    /\ status[a.node] = "COORDINATOR_WAITING_DONE"
    /\ LET i == a.node
       IN  IF a.header = "Timeout_Done_" /\ memory[i].node_status[a.id] # "done"
           THEN /\ network' = SendTo(network, "Commit", Signed(i, "commit"), i,
                                     NeighborWithId(i, a.id))
                /\ alarms' = alarms
           ELSE /\ network' = network
                /\ alarms' = alarms \ {a}
    /\ UNCHANGED <<params, status, memory, fatal, log>>

\* @Status.COORDINATOR_ABORTING receiving: the Aborted reply is counted as it comes.
ThreePCByzantine_receiving_ABORTING(msg) ==
    /\ Running
    /\ msg \in InFlight
    /\ status[msg.destination] = "COORDINATOR_ABORTING"
    /\ LET i == msg.destination
           mem == [memory[i] EXCEPT
                      !.node_status = DictSet(@, SourceId(i, msg.source), "aborted")]
       IN  IF msg.header = "Aborted"
           THEN /\ memory' = [memory EXCEPT ![i] = mem]
                /\ status' = IF CountStatus(mem.node_status, "aborted") >= params.n - 1
                             THEN [status EXCEPT ![i] = "DONE"]
                             ELSE status
           ELSE UNCHANGED <<memory, status>>
    /\ network' = Take(network, msg)
    /\ UNCHANGED <<params, alarms, fatal, log>>

\* @Status.COORDINATOR_ABORTING alarm
ThreePCByzantine_alarm_ABORTING(a) ==
    /\ Running
    /\ a \in alarms
    /\ status[a.node] = "COORDINATOR_ABORTING"
    /\ LET i == a.node
       IN  IF a.header = "Timeout_Abort_" /\ memory[i].node_status[a.id] # "aborted"
           THEN /\ network' = SendTo(network, "Abort", Signed(i, "abort"), i,
                                     NeighborWithId(i, a.id))
                /\ alarms' = alarms
           ELSE /\ network' = network
                /\ alarms' = alarms \ {a}
    /\ UNCHANGED <<params, status, memory, fatal, log>>

\* A replica that accepts whatever signature a message carries.
VerifiedFrom_unchecked(msg, word) == msg.data.id = msg.data.id

\* The check every replica handler makes of a message of the coordinator:
\* verify_signature(f"{word}:{coordinator_id}", signature, coordinator_id).
VerifiedFrom(msg, word) ==
    verify_signature(<<word, msg.data.id>>, msg.data.signature, msg.data.id)

\* @Status.SLEEP receiving
ThreePCByzantine_receiving_SLEEP(msg) ==
    /\ Running
    /\ msg \in InFlight
    /\ status[msg.destination] = "SLEEP"
    /\ LET i == msg.destination
       IN  IF msg.header = "Prepare" /\ VerifiedFrom(msg, "prepare")
           THEN /\ network' = SendTo(Take(network, msg), "Prepared", SignedPrepared(i, 1), i,
                                     {msg.source})
                /\ status' = [status EXCEPT ![i] = "WAITING_PRECOMMIT"]
                /\ log' = Logged(i, "Prepared")
           ELSE /\ network' = Take(network, msg)
                /\ UNCHANGED <<status, log>>
    /\ UNCHANGED <<params, memory, alarms, fatal>>

\* @Status.WAITING_PRECOMMIT receiving
ThreePCByzantine_receiving_WAITING_PRECOMMIT(msg) ==
    /\ Running
    /\ msg \in InFlight
    /\ status[msg.destination] = "WAITING_PRECOMMIT"
    /\ LET i == msg.destination
           net == Take(network, msg)
       IN  IF msg.header = "PreCommit" /\ VerifiedFrom(msg, "precommit")
           THEN /\ network' = SendTo(net, "Ack", Signed(i, "ack"), i, {msg.source})
                /\ status' = [status EXCEPT ![i] = "WAITING_COMMIT"]
                /\ log' = Logged(i, "Ack")
           ELSE IF msg.header = "Abort" /\ VerifiedFrom(msg, "abort")
           THEN /\ network' = SendTo(net, "Aborted", Signed(i, "aborted"), i, {msg.source})
                /\ status' = [status EXCEPT ![i] = "DONE"]
                /\ log' = Logged(i, "Abort")
           ELSE IF msg.header = "Prepare"
           THEN /\ network' = SendTo(net, "Prepared", SignedPrepared(i, 1), i, {msg.source})
                /\ UNCHANGED <<status, log>>
           ELSE /\ network' = net
                /\ UNCHANGED <<status, log>>
    /\ UNCHANGED <<params, memory, alarms, fatal>>

\* @Status.WAITING_COMMIT receiving
ThreePCByzantine_receiving_WAITING_COMMIT(msg) ==
    /\ Running
    /\ msg \in InFlight
    /\ status[msg.destination] = "WAITING_COMMIT"
    /\ LET i == msg.destination
           net == Take(network, msg)
       IN  IF msg.header = "Commit" /\ VerifiedFrom(msg, "commit")
           THEN /\ network' = SendTo(net, "Done", Signed(i, "done"), i, {msg.source})
                /\ status' = [status EXCEPT ![i] = "DONE"]
                /\ log' = Logged(i, "Commit")
           ELSE IF msg.header = "Abort" /\ VerifiedFrom(msg, "abort")
           THEN /\ network' = SendTo(net, "Aborted", Signed(i, "aborted"), i, {msg.source})
                /\ status' = [status EXCEPT ![i] = "DONE"]
                /\ log' = Logged(i, "Abort")
           ELSE IF msg.header = "PreCommit"
           THEN /\ network' = SendTo(net, "Ack", Signed(i, "ack"), i, {msg.source})
                /\ UNCHANGED <<status, log>>
           ELSE /\ network' = net
                /\ UNCHANGED <<status, log>>
    /\ UNCHANGED <<params, memory, alarms, fatal>>

\* A FAULTY node that answers every header with Prepared.
FaultyReply_prepared(net, i, msg) ==
    SendTo(net, "Prepared", SignedPrepared(i, 1), i, {msg.source})

\* The reply a FAULTY node sends to the message source, signed as itself, that
\* matches the header it received.
FaultyReply(net, i, msg) ==
    IF msg.header = "Prepare"
    THEN SendTo(net, "Prepared", SignedPrepared(i, 1), i, {msg.source})
    ELSE IF msg.header = "PreCommit"
    THEN SendTo(net, "Ack", Signed(i, "ack"), i, {msg.source})
    ELSE IF msg.header = "Commit"
    THEN SendTo(net, "Done", Signed(i, "done"), i, {msg.source})
    ELSE IF msg.header = "Abort"
    THEN SendTo(net, "Aborted", Signed(i, "aborted"), i, {msg.source})
    ELSE net

\* The data of the three conflicting messages of a FAULTY node: its own id,
\* decision 1, and its signature over message_data.
Conflicting(i, message_data) ==
    [id |-> UniqueValue(i), decision |-> 1, signature |-> sign_message(i, message_data)]

\* @Status.FAULTY receiving
ThreePCByzantine_receiving_FAULTY(msg) ==
    /\ Running
    /\ msg \in InFlight
    /\ status[msg.destination] = "FAULTY"
    /\ LET i == msg.destination
           neighbors == SelectNodes(Neighbors(i), Nodes \ {i, msg.source})
           half == Len(neighbors) \div 2
           neighbors_1 == {neighbors[k] : k \in 1 .. half}
           neighbors_2 == {neighbors[k] : k \in (half + 1) .. Len(neighbors)}
           net1 == SendTo(Take(network, msg), "Commit",
                          Conflicting(i, <<"commit", UniqueValue(i), 1>>), i, neighbors_1)
           net2 == SendTo(net1, "Abort",
                          Conflicting(i, <<"abort", UniqueValue(i), 0>>), i, neighbors_2)
           net3 == SendTo(net2, "Abort", Conflicting(i, <<"abort", 3, 0>>), i, {msg.source})
       IN  /\ status' = IF msg.header \in {"Commit", "Abort", "Aborted"}
                        THEN [status EXCEPT ![i] = "DONE"]
                        ELSE status
           /\ network' = FaultyReply(net3, i, msg)
           /\ log' = IF msg.header = "Prepare" THEN Logged(i, "Prepared")
                     ELSE IF msg.header = "PreCommit" THEN Logged(i, "Ack")
                     ELSE log
    /\ UNCHANGED <<params, memory, alarms, fatal>>

\* @Status.DONE default, for a message: Commit and Abort are answered as they come.
ThreePCByzantine_default(msg) ==
    /\ Running
    /\ msg \in InFlight
    /\ status[msg.destination] = "DONE"
    /\ LET i == msg.destination
           net == Take(network, msg)
       IN  network' = IF msg.header = "Commit"
                      THEN SendTo(net, "Done", Signed(i, "done"), i, {msg.source})
                      ELSE IF msg.header = "Abort"
                      THEN SendTo(net, "Aborted", Signed(i, "aborted"), i, {msg.source})
                      ELSE net
    /\ UNCHANGED <<params, status, memory, alarms, fatal, log>>

\* @Status.DONE default, for an alarm.
ThreePCByzantine_default_alarm(a) ==
    /\ Running
    /\ a \in alarms
    /\ status[a.node] = "DONE"
    /\ alarms' = alarms \ {a}
    /\ UNCHANGED <<params, status, memory, network, fatal, log>>

ThreePCByzantineInit ==
    \E m \in 0 .. B3PCMaxM, coordinator \in 0 .. (B3PCCoordinators - 1) :
        \E faulty \in SUBSET ((0 .. (B3PCNodes - 1)) \ {coordinator}) :
            /\ Cardinality(faulty) = m
            /\ ThreePCByzantine_initializer(B3PCNodes, m, coordinator, faulty)

ThreePCByzantineNext ==
    \/ \E i \in Nodes : ThreePCByzantine_spontaneously(i)
    \/ \E a \in alarms : AlarmDue /\ ThreePCByzantine_alarm_WAITING_PREPARED(a)
    \/ \E msg \in InFlight : ThreePCByzantine_receiving_WAITING_PREPARED(msg)
    \/ \E msg \in InFlight : ThreePCByzantine_receiving_WAITING_ACK(msg)
    \/ \E a \in alarms : AlarmDue /\ ThreePCByzantine_alarm_WAITING_ACK(a)
    \/ \E msg \in InFlight : ThreePCByzantine_receiving_WAITING_DONE(msg)
    \/ \E a \in alarms : AlarmDue /\ ThreePCByzantine_alarm_WAITING_DONE(a)
    \/ \E msg \in InFlight : ThreePCByzantine_receiving_ABORTING(msg)
    \/ \E a \in alarms : AlarmDue /\ ThreePCByzantine_alarm_ABORTING(a)
    \/ \E msg \in InFlight : ThreePCByzantine_receiving_SLEEP(msg)
    \/ \E msg \in InFlight : ThreePCByzantine_receiving_WAITING_PRECOMMIT(msg)
    \/ \E msg \in InFlight : ThreePCByzantine_receiving_WAITING_COMMIT(msg)
    \/ \E msg \in InFlight : ThreePCByzantine_receiving_FAULTY(msg)
    \/ \E msg \in InFlight : ThreePCByzantine_default(msg)
    \/ \E a \in alarms : AlarmDue /\ ThreePCByzantine_default_alarm(a)
    \/ \E msg \in InFlight : Lose(msg)

\* An alarm is due 20 ticks after it was armed: it fires when the messages sent
\* before it are delivered or lost.
ThreePCByzantineSpec == ThreePCByzantineInit /\ [][ThreePCByzantineNext]_vars

\* --------------------------------------------------------------------
\* Byzantine 3PC properties
\* --------------------------------------------------------------------

\* The node the initializer made the coordinator.
ByzCoordinator ==
    CHOOSE i \in Nodes : [node |-> i, event |-> "initialized as COORDINATOR"] \in log

\* The string a handler verifies the signature of a message against.
Canonical(msg) ==
    IF msg.header = "Prepared" THEN <<"prepared", msg.data.id, msg.data.decision>>
    ELSE IF msg.header = "Prepare" THEN <<"prepare", msg.data.id>>
    ELSE IF msg.header = "PreCommit" THEN <<"precommit", msg.data.id>>
    ELSE IF msg.header = "Ack" THEN <<"ack", msg.data.id>>
    ELSE IF msg.header = "Commit" THEN <<"commit", msg.data.id>>
    ELSE IF msg.header = "Done" THEN <<"done", msg.data.id>>
    ELSE IF msg.header = "Abort" THEN <<"abort", msg.data.id>>
    ELSE <<"aborted", msg.data.id>>

\* The signature of the message does not verify against the id asserted in
\* its data.
BadSignature(msg) ==
    msg.data.signature # <<Canonical(msg), <<"key", msg.data.id>>>>

\* A copy of the message was delivered (or lost) in this step.
Consumed(msg) == CopiesIn(msg, network') < CopiesIn(msg, network)

\* C10: in every status an honest node that receives a protocol message whose
\* signature fails verification against the asserted sender id sends nothing
\* and changes neither its status nor its memory.
ThreePCByzantine_DropsBadSignature ==
    [][\A msg \in InFlight :
          (Honest(msg.destination) /\ BadSignature(msg) /\ Consumed(msg))
          => /\ network' = Take(network, msg)
             /\ status' = status
             /\ memory' = memory]_vars

\* --------------------------------------------------------------------
\* Byzantine 3PC with forged replies delivered to the coordinator
\* --------------------------------------------------------------------

\* Nodes of a Byzantine 3PC network whose coordinator is sent forged replies.
ForgeNodes == 3
\* Forged replies in flight at a time.
MaxForged == 1

\* The data of a reply that asserts the id `claimed` and carries the signature
\* of node f over the string the coordinator verifies.
ForgedData(f, header, claimed) ==
    IF header = "Prepared"
    THEN [id |-> claimed, decision |-> 1,
          signature |-> sign_message(f, <<"prepared", claimed, 1>>)]
    ELSE IF header = "Ack"
    THEN [id |-> claimed, signature |-> sign_message(f, <<"ack", claimed>>)]
    ELSE [id |-> claimed, signature |-> sign_message(f, <<"done", claimed>>)]

\* A reply of the three kinds the coordinator verifies, with a bad signature.
Forged(msg) == msg.header \in {"Prepared", "Ack", "Done"} /\ BadSignature(msg)

\* The message argument of the coordinator's receiving handlers: a node
\* initialized as FAULTY sends the coordinator a Prepared, Ack or Done that
\* asserts the id of another node and is signed with its own key.
Forge(f, header, claimed) ==
    /\ Running
    /\ ~Honest(f)
    /\ claimed # UniqueValue(f)
    /\ status[ByzCoordinator] # "COORDINATOR"
    /\ Cardinality({msg \in InFlight : Forged(msg)}) < MaxForged
    /\ network' = SendTo(network, header, ForgedData(f, header, claimed), f, {ByzCoordinator})
    /\ UNCHANGED <<params, status, memory, alarms, fatal, log>>

ThreePCByzantineForgeNext ==
    \/ ThreePCByzantineNext
    \/ \E f \in Nodes, header \in {"Prepared", "Ack", "Done"} :
          \E claimed \in {UniqueValue(i) : i \in Nodes} : Forge(f, header, claimed)

ThreePCByzantineForgeInit ==
    \E m \in 0 .. B3PCMaxM, coordinator \in 0 .. (B3PCCoordinators - 1) :
        \E faulty \in SUBSET ((0 .. (ForgeNodes - 1)) \ {coordinator}) :
            /\ Cardinality(faulty) = m
            /\ ThreePCByzantine_initializer(ForgeNodes, m, coordinator, faulty)

ThreePCByzantineForgeSpec ==
    ThreePCByzantineForgeInit /\ [][ThreePCByzantineForgeNext]_vars

\* The node whose unique value is id has sent a reply with this header.
SentBy(id, header) ==
    \E i \in Nodes : UniqueValue(i) = id /\ [node |-> i, event |-> header] \in log

\* Nodes that have sent a reply with this header.
Senders(header) == {i \in Nodes : [node |-> i, event |-> header] \in log}

\* C9: a Prepared, Ack or Done whose signature does not verify against the id
\* asserted in its data leaves the coordinator's memory (prepare_votes,
\* ack_votes, node_status) and status unchanged; every key of prepare_votes and
\* ack_votes is the id of a node that signed and sent that reply itself; and the
\* coordinator is past a quorum check only when n-1 nodes have sent the reply.
ThreePCByzantine_ForgedIgnored ==
    /\ [][\A msg \in InFlight :
            (msg.destination = ByzCoordinator /\ Forged(msg) /\ Consumed(msg))
            => /\ memory'[ByzCoordinator] = memory[ByzCoordinator]
               /\ status'[ByzCoordinator] = status[ByzCoordinator]]_vars
    /\ [](\A k \in DOMAIN memory[ByzCoordinator].prepare_votes :
            LET vote == memory[ByzCoordinator].prepare_votes[k]
            IN  /\ SentBy(k, "Prepared")
                /\ vote[2] = <<<<"prepared", k, vote[1]>>, <<"key", k>>>>)
    /\ [](\A k \in DOMAIN memory[ByzCoordinator].ack_votes :
            /\ SentBy(k, "Ack")
            /\ memory[ByzCoordinator].ack_votes[k] = <<<<"ack", k>>, <<"key", k>>>>)
    /\ [](status[ByzCoordinator] \in {"COORDINATOR_WAITING_ACK", "COORDINATOR_WAITING_DONE"}
            => Cardinality(Senders("Prepared")) >= params.n - 1)
    /\ [](status[ByzCoordinator] = "COORDINATOR_WAITING_DONE"
            => Cardinality(Senders("Ack")) >= params.n - 1)

\* The coordinator rejected a forged Prepared and a forged Ack, holds the votes
\* of the n-1 real senders and has passed both quorum checks.
ThreePCByzantine_ForgedIgnored_Witness ==
    /\ [node |-> ByzCoordinator, event |-> "rejects Prepared"] \in log
    /\ [node |-> ByzCoordinator, event |-> "rejects Ack"] \in log
    /\ \E f \in Nodes : ~Honest(f)
    /\ status[ByzCoordinator] = "COORDINATOR_WAITING_DONE"
    /\ Cardinality(DOMAIN memory[ByzCoordinator].ack_votes) = params.n - 1

\* --------------------------------------------------------------------
\* Byzantine 3PC with fair delivery and timeouts: at most FairMaxLost messages
\* are lost, every other message is delivered, every due alarm fires.
\* --------------------------------------------------------------------

FairNodes == 3
FairMaxM == 2
FairMaxLost == 1

Lost == {e \in log : e.event = "lost"}

\* The network drops a message; the drop is recorded so it can be bounded.
LoseBounded(msg) ==
    /\ Cardinality(Lost) < FairMaxLost
    /\ Running
    /\ msg \in InFlight
    /\ network' = Take(network, msg)
    /\ log' = log \cup {[node |-> msg.destination, event |-> "lost"]}
    /\ UNCHANGED <<params, status, memory, alarms, fatal>>

ThreePCByzantineFairInit ==
    \E m \in 1 .. FairMaxM, coordinator \in 0 .. (B3PCCoordinators - 1) :
        \E faulty \in SUBSET ((0 .. (FairNodes - 1)) \ {coordinator}) :
            /\ Cardinality(faulty) = m
            /\ ThreePCByzantine_initializer(FairNodes, m, coordinator, faulty)

ThreePCByzantineFairNext ==
    \/ \E i \in Nodes : ThreePCByzantine_spontaneously(i)
    \/ \E a \in alarms : AlarmDue /\ ThreePCByzantine_alarm_WAITING_PREPARED(a)
    \/ \E msg \in InFlight : ThreePCByzantine_receiving_WAITING_PREPARED(msg)
    \/ \E msg \in InFlight : ThreePCByzantine_receiving_WAITING_ACK(msg)
    \/ \E a \in alarms : AlarmDue /\ ThreePCByzantine_alarm_WAITING_ACK(a)
    \/ \E msg \in InFlight : ThreePCByzantine_receiving_WAITING_DONE(msg)
    \/ \E a \in alarms : AlarmDue /\ ThreePCByzantine_alarm_WAITING_DONE(a)
    \/ \E msg \in InFlight : ThreePCByzantine_receiving_ABORTING(msg)
    \/ \E a \in alarms : AlarmDue /\ ThreePCByzantine_alarm_ABORTING(a)
    \/ \E msg \in InFlight : ThreePCByzantine_receiving_SLEEP(msg)
    \/ \E msg \in InFlight : ThreePCByzantine_receiving_WAITING_PRECOMMIT(msg)
    \/ \E msg \in InFlight : ThreePCByzantine_receiving_WAITING_COMMIT(msg)
    \/ \E msg \in InFlight : ThreePCByzantine_receiving_FAULTY(msg)
    \/ \E msg \in InFlight : ThreePCByzantine_default(msg)
    \/ \E a \in alarms : AlarmDue /\ ThreePCByzantine_default_alarm(a)
    \/ \E msg \in InFlight : LoseBounded(msg)

ThreePCByzantineFairSpec ==
    /\ ThreePCByzantineFairInit
    /\ [][ThreePCByzantineFairNext]_vars
    /\ WF_vars(ThreePCByzantineFairNext)

\* C11: under fair delivery and timeouts every run of Byzantine 3PC, for every
\* m >= 1 and every delivery order, eventually has the coordinator, every
\* honest replica and every FAULTY node in DONE.
ThreePCByzantine_Termination == <>(\A i \in Nodes : status[i] = "DONE")

\* --------------------------------------------------------------------
\* Byzantine 3PC: what an equivocating node can do to the honest replicas
\* --------------------------------------------------------------------

Replica(i) == Honest(i) /\ i # ByzCoordinator

\* The replica ended the transaction by accepting this decision.
EndedBy(i, header) == status[i] = "DONE" /\ [node |-> i, event |-> header] \in log

\* C12: no message sent by a FAULTY node changes the status of an honest
\* replica; an honest replica enters DONE only on a Commit of the coordinator
\* that has broadcast Commit, or on an Abort of the coordinator that has
\* broadcast Abort; no two honest replicas end one by Commit, the other by Abort.
ThreePCByzantine_Agreement ==
    /\ [][\A msg \in InFlight :
            (Consumed(msg) /\ Replica(msg.destination))
            => /\ ~Honest(msg.source) => status'[msg.destination] = status[msg.destination]
               /\ (status[msg.destination] # "DONE" /\ status'[msg.destination] = "DONE")
                  => /\ msg.source = ByzCoordinator
                     /\ \/ /\ msg.header = "Commit"
                           /\ status[ByzCoordinator] \in {"COORDINATOR_WAITING_DONE", "DONE"}
                           /\ Cardinality(DOMAIN memory[ByzCoordinator].ack_votes)
                                >= params.n - 1
                        \/ /\ msg.header = "Abort"
                           /\ status[ByzCoordinator] \in {"COORDINATOR_ABORTING", "DONE"}
                           /\ Cardinality(DOMAIN memory[ByzCoordinator].ack_votes)
                                < params.n - 1]_vars
    /\ [](\A i, j \in Nodes :
            (Replica(i) /\ Replica(j)) => ~(EndedBy(i, "Commit") /\ EndedBy(j, "Abort")))

\* A FAULTY node has equivocated, an honest replica that ended by Commit is
\* answering a Commit or Abort of the FAULTY node, and it is still in DONE.
ThreePCByzantine_Agreement_Witness ==
    \E i, f \in Nodes :
        /\ Replica(i)
        /\ ~Honest(f)
        /\ [node |-> f, event |-> "Prepared"] \in log
        /\ EndedBy(i, "Commit")
        /\ \E msg \in InFlight :
              /\ msg.source = i
              /\ msg.destination = f
              /\ msg.header \in {"Done", "Aborted"}

\* --------------------------------------------------------------------
\* sign_message and verify_signature as functions of their arguments
\* --------------------------------------------------------------------

SigNodes == 3
SigMaxChecks == 1

\* Data strings the handlers sign or verify against: f"commit:{id}",
\* f"commit:{id}:{decision}" and f"abort:3:{decision}".
DataStrings == {<<"commit", 1>>, <<"commit", 1, 1>>, <<"abort", 3, 0>>}

\* Every node holds the key the initializer gives it; nothing was sent.
SignatureInit ==
    /\ params = [n |-> SigNodes, m |-> 0]
    /\ status = [i \in 0 .. (SigNodes - 1) |-> "SLEEP"]
    /\ memory = [i \in 0 .. (SigNodes - 1) |->
                    [prepare_votes |-> << >>, ack_votes |-> << >>,
                     node_status |-> << >>, private_key |-> private_key(i)]]
    /\ network = EmptyBag
    /\ alarms = {}
    /\ fatal = None
    /\ log = {}

\* Node x signs the data string s and sends the signature to node j.
SignAndSend(x, s, j) ==
    /\ network = EmptyBag
    /\ Cardinality(log) < SigMaxChecks
    /\ network' = SendTo(network, "Signed",
                         [signed |-> s, signature |-> sign_message(x, s)], x, {j})
    /\ UNCHANGED <<params, status, memory, alarms, fatal, log>>

\* The receiver verifies the signature for the data string s against the sender
\* id y and records what verify_signature returned.
Verify(msg, s, y) ==
    /\ msg \in InFlight
    /\ network' = Take(network, msg)
    /\ log' = log \cup {[node |-> msg.destination,
                         event |-> [signer |-> UniqueValue(msg.source),
                                    signed |-> msg.data.signed,
                                    checked |-> s,
                                    sender_id |-> y,
                                    valid |-> verify_signature(s, msg.data.signature, y)]]}
    /\ UNCHANGED <<params, status, memory, alarms, fatal>>

SignatureNext ==
    \/ \E x \in Nodes, s \in DataStrings : \E j \in Nodes \ {x} : SignAndSend(x, s, j)
    \/ \E msg \in InFlight, s \in DataStrings :
          \E y \in {UniqueValue(i) : i \in Nodes} : Verify(msg, s, y)

SignatureSpec == SignatureInit /\ [][SignatureNext]_vars

\* C13: verify_signature(s, signature by node X of s, Y) is true exactly when
\* Y = X, and a signature over a different data string never verifies for s.
Signature_RoundTrip ==
    \A e \in log :
        e.event.valid <=> (e.event.sender_id = e.event.signer
                           /\ e.event.checked = e.event.signed)

\* A signature was verified for the string it signs against its signer's id.
Signature_RoundTrip_Witness ==
    \E e \in log :
        /\ e.event.valid
        /\ e.event.sender_id = e.event.signer
        /\ e.event.checked = e.event.signed

\* --------------------------------------------------------------------
\* The DONE handlers of the three commit protocols
\* --------------------------------------------------------------------

\* A Commit or Abort is delivered in this step to a node that is in DONE.
DoneDelivered(msg) ==
    /\ status[msg.destination] = "DONE"
    /\ msg.header \in {"Commit", "Abort"}
    /\ Consumed(msg)
    /\ ~Lose(msg)

\* The step leaves every status and memory as it was and sends this reply to
\* the source of the message.
RepliesOnly(msg, header, data) ==
    /\ status' = status
    /\ memory' = memory
    /\ network' = SendTo(Take(network, msg), header, data, msg.destination, {msg.source})

ThreePC_DoneIdempotent ==
    [][\A msg \in InFlight :
          DoneDelivered(msg)
          => RepliesOnly(msg, IF msg.header = "Commit" THEN "Ack" ELSE "Aborted",
                         [id |-> UniqueValue(msg.destination)])]_vars

\* The same for Byzantine 3PC: a signed Done for a Commit, a signed Aborted for
\* an Abort.
ThreePCByzantine_DoneIdempotent ==
    [][\A msg \in InFlight :
          DoneDelivered(msg)
          => RepliesOnly(msg, IF msg.header = "Commit" THEN "Done" ELSE "Aborted",
                         Signed(msg.destination,
                                IF msg.header = "Commit" THEN "done" ELSE "aborted"))]_vars

OM_DecisionsBounded ==
    /\ fatal # "ValueError"
    /\ \A i \in Nodes : \A key \in DOMAIN memory[i].saved_decisions :
          Cardinality(DOMAIN memory[i].saved_decisions[key].decisions)
            <= memory[i].saved_decisions[key].total

\* With m = 2 a node holds a complete entry for the commander's path and a
\* complete entry for a relayed path.
OM_DecisionsBounded_Witness ==
    /\ params.m = 2
    /\ \E i \in Nodes : \E k1, k2 \in DOMAIN memory[i].saved_decisions :
          /\ Len(k1) = 1
          /\ Len(k2) = 2
          /\ \A key \in {k1, k2} :
                Cardinality(DOMAIN memory[i].saved_decisions[key].decisions)
                  = memory[i].saved_decisions[key].total

\* --------------------------------------------------------------------
\* 2PC and 3PC: what reaches a node in DONE
\* --------------------------------------------------------------------

\* C16: the fatal branch of the DONE handler is unreachable: no node in DONE is
\* ever delivered a message whose header is neither Timeout_*, Commit nor Abort.
PC_DoneNeverRaises ==
    /\ fatal # "Exception"
    /\ \A msg \in InFlight :
          status[msg.destination] = "DONE"
          => (IsTimeout(msg.header) \/ msg.header \in {"Commit", "Abort"})

\* --------------------------------------------------------------------
\* 2PC and 3PC: the status graph
\* --------------------------------------------------------------------

\* The edges the 2PC handlers assign.
TwoPC_Edges ==
    {<<"COORDINATOR", "COORDINATOR_WAITING_PREPARED">>,
     <<"COORDINATOR_WAITING_PREPARED", "COORDINATOR_WAITING_ACK">>,
     <<"COORDINATOR_WAITING_ACK", "DONE">>,
     <<"SLEEP", "WAITING">>,
     <<"WAITING", "DONE">>}

\* The edges the 3PC handlers assign.
ThreePC_Edges ==
    {<<"COORDINATOR", "COORDINATOR_WAITING_PREPARED">>,
     <<"COORDINATOR_WAITING_PREPARED", "COORDINATOR_WAITING_ACK">>,
     <<"COORDINATOR_WAITING_PREPARED", "COORDINATOR_ABORTING">>,
     <<"COORDINATOR_WAITING_ACK", "COORDINATOR_WAITING_DONE">>,
     <<"COORDINATOR_WAITING_ACK", "COORDINATOR_ABORTING">>,
     <<"COORDINATOR_WAITING_DONE", "DONE">>,
     <<"COORDINATOR_ABORTING", "DONE">>,
     <<"SLEEP", "WAITING_PRECOMMIT">>,
     <<"WAITING_PRECOMMIT", "WAITING">>,
     <<"WAITING_PRECOMMIT", "DONE">>,
     <<"WAITING", "DONE">>}

\* C17: every status change of a node follows a declared edge; no node leaves
\* DONE and no other transition occurs (3PC).
ThreePC_DeclaredEdges ==
    [][\A i \in Nodes :
          status'[i] # status[i] => <<status[i], status'[i]>> \in ThreePC_Edges]_vars

\* The same for 2PC.
TwoPC_DeclaredEdges ==
    [][\A i \in Nodes :
          status'[i] # status[i] => <<status[i], status'[i]>> \in TwoPC_Edges]_vars

\* Every node is DONE: the coordinator through COORDINATOR_WAITING_ACK and
\* COORDINATOR_ABORTING, one participant through WAITING, another straight
\* from WAITING_PRECOMMIT.
ThreePC_DeclaredEdges_Witness ==
    /\ AllDone
    /\ TimedOutOnAck
    /\ \E p, q \in Participants :
          /\ Handled(p, "PreCommit")
          /\ Handled(p, "Abort")
          /\ ~Handled(q, "PreCommit")
          /\ Handled(q, "Abort")

\* --------------------------------------------------------------------
\* Oral messages: the traitors
\* --------------------------------------------------------------------

\* The Decision messages node i has in flight with this m.
RelaysOf(net, i, m) ==
    {r \in BagToSet(net) : r.source = i /\ r.header = "Decision" /\ r.data.m = m}

\* C18: a node that is TRAITOR stays TRAITOR in every step (it never becomes
\* ATTACK, RETREAT or DONE), and for every Decision with m >= 1 delivered to it
\* it sends a Decision with m - 1.
OM_TraitorStays ==
    /\ [][\A i \in Nodes : status[i] = "TRAITOR" => status'[i] = "TRAITOR"]_vars
    /\ [][\A msg \in InFlight :
            (/\ Consumed(msg)
             /\ status[msg.destination] = "TRAITOR"
             /\ msg.header = "Decision"
             /\ msg.data.m >= 1)
            => RelaysOf(network', msg.destination, msg.data.m - 1)
                 \ RelaysOf(network, msg.destination, msg.data.m - 1) # {}]_vars

\* A traitor has handled a Decision with m >= 1, holds every decision of the
\* commander's path, and is still TRAITOR.
OM_TraitorStays_Witness ==
    \E i \in Nodes :
        /\ status[i] = "TRAITOR"
        /\ \E e \in log : e.node = i /\ e.m >= 1
        /\ \E key \in DOMAIN memory[i].saved_decisions :
              /\ Len(key) = 1
              /\ Cardinality(DOMAIN memory[i].saved_decisions[key].decisions)
                   = memory[i].saved_decisions[key].total

\* --------------------------------------------------------------------
\* Oral messages: the seed scenario n=4, m=1, commander decision 1
\* --------------------------------------------------------------------

SeedScenario == params.n = 4 /\ params.m = 1 /\ params.decision = 1

\* The lieutenants the initializer did not make traitors.
HonestLieutenants == {i \in Nodes : status[i] \in {"LIEUTIENANT", "ATTACK", "RETREAT"}}

\* The commander has sent its decision and every Decision was delivered.
OM_Finished == status[Commander] = "DONE" /\ network = EmptyBag

\* C19: in the seed scenario there are three honest lieutenants and each of
\* them ends in ATTACK.
OM_Seed_ThreeAttack ==
    SeedScenario =>
        /\ Cardinality(HonestLieutenants) = 3
        /\ OM_Finished => \A i \in HonestLieutenants : status[i] = "ATTACK"

\* C19, amended: in the seed scenario there are two honest lieutenants (the
\* traitor is one of the three lieutenants), none of them is ever in RETREAT,
\* and each of them ends in ATTACK.
OM_Seed_TwoAttack ==
    SeedScenario =>
        /\ Cardinality(HonestLieutenants) = 2
        /\ \A i \in HonestLieutenants : status[i] # "RETREAT"
        /\ OM_Finished => \A i \in HonestLieutenants : status[i] = "ATTACK"

\* The seed run has ended: both honest lieutenants are in ATTACK and one of
\* them recorded the traitor's lie.
OM_Seed_TwoAttack_Witness ==
    /\ SeedScenario
    /\ OM_Finished
    /\ \E t \in Nodes : status[t] = "TRAITOR"
    /\ \A i \in HonestLieutenants : status[i] = "ATTACK"
    /\ \E i \in HonestLieutenants :
          \E p \in DOMAIN memory[i].saved_decisions :
              \E k \in DOMAIN memory[i].saved_decisions[p].decisions :
                  memory[i].saved_decisions[p].decisions[k] = 0

\* --------------------------------------------------------------------
\* 3PC: the outcome the coordinator keeps
\* --------------------------------------------------------------------

\* C20: whenever the 3PC coordinator is in DONE its memory field decision is
\* set: "Commit" if it passed through COORDINATOR_WAITING_DONE, "Abort" if it
\* passed through COORDINATOR_ABORTING.
ThreePC_DecisionRecorded ==
    status[Coordinator] = "DONE" =>
        /\ "decision" \in DOMAIN memory[Coordinator]
        /\ DoneThroughCommit => memory[Coordinator].decision = "Commit"
        /\ DoneThroughAbort => memory[Coordinator].decision = "Abort"

\* --------------------------------------------------------------------
\* 2PC: what the coordinator has received when it moves on
\* --------------------------------------------------------------------

\* C21: the 2PC coordinator sets decision = "Commit" and leaves
\* COORDINATOR_WAITING_PREPARED only after a Prepared with decision 1 was
\* received from every distinct neighbor: when it does, node_status records
\* 'prepared' for every neighbor.
TwoPC_CommitAfterAllPrepared ==
    [][(/\ status[Coordinator] = "COORDINATOR_WAITING_PREPARED"
        /\ status'[Coordinator] # "COORDINATOR_WAITING_PREPARED"
        /\ "decision" \in DOMAIN memory'[Coordinator]
        /\ memory'[Coordinator].decision = "Commit")
       => \A p \in Participants :
             memory'[Coordinator].node_status[SourceId(Coordinator, p)] = "prepared"]_vars

\* C22: the 2PC coordinator moves from COORDINATOR_WAITING_ACK to DONE only
\* when an Ack was received from every distinct neighbor: when it does,
\* node_status records 'ack' for every neighbor.
TwoPC_DoneAfterAllAck ==
    [][(/\ status[Coordinator] = "COORDINATOR_WAITING_ACK"
        /\ status'[Coordinator] = "DONE")
       => \A p \in Participants :
             memory'[Coordinator].node_status[SourceId(Coordinator, p)] = "ack"]_vars

\* --------------------------------------------------------------------
\* 3PC: what the coordinator has received when it moves on
\* --------------------------------------------------------------------

\* C23: the 3PC coordinator broadcasts PreCommit and enters
\* COORDINATOR_WAITING_ACK only after a Prepared with decision 1 was received
\* from every distinct neighbor, so at that moment node_status records
\* 'prepared' for every neighbor and no participant is still in SLEEP.
ThreePC_PreCommitAfterAllPrepared ==
    [][(/\ status[Coordinator] = "COORDINATOR_WAITING_PREPARED"
        /\ status'[Coordinator] = "COORDINATOR_WAITING_ACK")
       => \A p \in Participants :
             /\ memory'[Coordinator].node_status[SourceId(Coordinator, p)] = "prepared"
             /\ status'[p] # "SLEEP"]_vars

\* C24: the 3PC coordinator moves from COORDINATOR_ABORTING to DONE only when
\* an Aborted was received from every distinct neighbor: when it does,
\* node_status records 'aborted' for every neighbor.
ThreePC_DoneAfterAllAborted ==
    [][(/\ status[Coordinator] = "COORDINATOR_ABORTING"
        /\ status'[Coordinator] = "DONE")
       => \A p \in Participants :
             memory'[Coordinator].node_status[SourceId(Coordinator, p)] = "aborted"]_vars

\* --------------------------------------------------------------------
\* Byzantine 3PC without faulty nodes and with unbounded message delay: an
\* alarm may fire while the reply it waits for is still in flight, so replies
\* are retransmitted and reach the coordinator more than once.
\* --------------------------------------------------------------------

DelayNodes == 3

ThreePCByzantineDelayInit ==
    \E coordinator \in 0 .. (B3PCCoordinators - 1) :
        ThreePCByzantine_initializer(DelayNodes, 0, coordinator, {})

ThreePCByzantineDelayNext ==
    \/ \E i \in Nodes : ThreePCByzantine_spontaneously(i)
    \/ \E a \in alarms : ThreePCByzantine_alarm_WAITING_PREPARED(a)
    \/ \E msg \in InFlight : ThreePCByzantine_receiving_WAITING_PREPARED(msg)
    \/ \E msg \in InFlight : ThreePCByzantine_receiving_WAITING_ACK(msg)
    \/ \E a \in alarms : ThreePCByzantine_alarm_WAITING_ACK(a)
    \/ \E msg \in InFlight : ThreePCByzantine_receiving_WAITING_DONE(msg)
    \/ \E a \in alarms : ThreePCByzantine_alarm_WAITING_DONE(a)
    \/ \E msg \in InFlight : ThreePCByzantine_receiving_ABORTING(msg)
    \/ \E a \in alarms : ThreePCByzantine_alarm_ABORTING(a)
    \/ \E msg \in InFlight : ThreePCByzantine_receiving_SLEEP(msg)
    \/ \E msg \in InFlight : ThreePCByzantine_receiving_WAITING_PRECOMMIT(msg)
    \/ \E msg \in InFlight : ThreePCByzantine_receiving_WAITING_COMMIT(msg)
    \/ \E msg \in InFlight : ThreePCByzantine_default(msg)
    \/ \E a \in alarms : ThreePCByzantine_default_alarm(a)
    \/ \E msg \in InFlight : Lose(msg)

ThreePCByzantineDelaySpec ==
    ThreePCByzantineDelayInit /\ [][ThreePCByzantineDelayNext]_vars

\* The ids the neighbors of node i sign with.
NeighborIds(i) == {UniqueValue(j) : j \in Nodes \ {i}}

\* C25: the Byzantine coordinator broadcasts PreCommit (enters
\* COORDINATOR_WAITING_ACK) only when prepare_votes holds a validly signed
\* Prepared with decision 1 from each of its n-1 neighbors, broadcasts Commit
\* (enters COORDINATOR_WAITING_DONE) only when ack_votes holds a validly signed
\* Ack from each of its n-1 neighbors, and leaves COORDINATOR_WAITING_DONE for
\* DONE only when each of its n-1 neighbors has status 'done'; replies that
\* arrive twice are counted once.
ThreePCByzantine_Quorum ==
    [][LET c == ByzCoordinator
           mem == memory'[c]
       IN  /\ (/\ status[c] = "COORDINATOR_WAITING_PREPARED"
               /\ status'[c] = "COORDINATOR_WAITING_ACK")
              => /\ DOMAIN mem.prepare_votes = NeighborIds(c)
                 /\ Cardinality(NeighborIds(c)) = params.n - 1
                 /\ \A k \in DOMAIN mem.prepare_votes :
                       /\ mem.prepare_votes[k][1] = 1
                       /\ verify_signature(<<"prepared", k, 1>>, mem.prepare_votes[k][2], k)
           /\ (/\ status[c] = "COORDINATOR_WAITING_ACK"
               /\ status'[c] = "COORDINATOR_WAITING_DONE")
              => /\ DOMAIN mem.ack_votes = NeighborIds(c)
                 /\ \A k \in DOMAIN mem.ack_votes :
                       verify_signature(<<"ack", k>>, mem.ack_votes[k], k)
           /\ (/\ status[c] = "COORDINATOR_WAITING_DONE"
               /\ status'[c] = "DONE")
              => /\ Cardinality(DOMAIN mem.node_status) = params.n - 1
                 /\ \A s \in DOMAIN mem.node_status : mem.node_status[s] = "done"]_vars

\* The coordinator has passed the three quorum checks while a second copy of
\* a Done it has already counted is still in flight to it.
ThreePCByzantine_Quorum_Witness ==
    /\ status[ByzCoordinator] = "DONE"
    /\ \A s \in DOMAIN memory[ByzCoordinator].node_status :
          memory[ByzCoordinator].node_status[s] = "done"
    /\ Cardinality(DOMAIN memory[ByzCoordinator].ack_votes) = params.n - 1
    /\ \E msg \in InFlight : msg.destination = ByzCoordinator /\ msg.header = "Done"

\* The headers the receiving handler of a 2PC status acts on.
TwoPC_Handled(st) ==
    IF st = "COORDINATOR_WAITING_PREPARED" THEN {"Prepared"}
    ELSE IF st = "COORDINATOR_WAITING_ACK" THEN {"Ack"}
    ELSE IF st = "SLEEP" THEN {"Prepare"}
    ELSE IF st = "WAITING" THEN {"Commit", "Abort", "Prepare"}
    ELSE {}

\* The headers the receiving handler of a 3PC status acts on.
ThreePC_Handled(st) ==
    IF st = "COORDINATOR_WAITING_PREPARED" THEN {"Prepared"}
    ELSE IF st = "COORDINATOR_WAITING_ACK" THEN {"Ack"}
    ELSE IF st = "COORDINATOR_WAITING_DONE" THEN {"Done"}
    ELSE IF st = "COORDINATOR_ABORTING" THEN {"Aborted"}
    ELSE IF st = "SLEEP" THEN {"Prepare"}
    ELSE IF st = "WAITING_PRECOMMIT" THEN {"PreCommit", "Abort", "Prepare"}
    ELSE IF st = "WAITING" THEN {"Commit", "Abort", "PreCommit"}
    ELSE {}

\* The message leaves the network, the status and the memory of its
\* destination stay as they were and nothing is sent.
Dropped(msg) ==
    /\ status'[msg.destination] = status[msg.destination]
    /\ memory'[msg.destination] = memory[msg.destination]
    /\ network' = Take(network, msg)

DroppedButNeighbors(msg) ==
    /\ status'[msg.destination] = status[msg.destination]
    /\ [memory'[msg.destination] EXCEPT !.neighbors = << >>]
          = [memory[msg.destination] EXCEPT !.neighbors = << >>]
    /\ network' = Take(network, msg)

ThreePC_UnhandledKeepsState ==
    [][\A msg \in InFlight :
          (/\ Consumed(msg)
           /\ status[msg.destination] # "DONE"
           /\ msg.header \notin ThreePC_Handled(status[msg.destination]))
          => DroppedButNeighbors(msg)]_vars

PhaseOf(header) ==
    IF header = "Timeout_Ack_" THEN "COORDINATOR_WAITING_ACK"
    ELSE IF header = "Timeout_Done_" THEN "COORDINATOR_WAITING_DONE"
    ELSE "COORDINATOR_ABORTING"

AwaitedOf(header) ==
    IF header = "Timeout_Ack_" THEN "ack"
    ELSE IF header = "Timeout_Done_" THEN "done"
    ELSE "aborted"

\* The wait of a per-neighbor alarm is over: the awaited response of the
\* neighbor is recorded or the coordinator has left the phase.
Completed(a) ==
    /\ a.header \in {"Timeout_Ack_", "Timeout_Done_", "Timeout_Abort_"}
    /\ \/ memory[a.node].node_status[a.id] = AwaitedOf(a.header)
       \/ status[a.node] # PhaseOf(a.header)

\* The alarm is consumed; nothing is sent or armed, no status or memory changes.
AlarmNoOp(a) ==
    /\ alarms' = alarms \ {a}
    /\ UNCHANGED <<network, status, memory>>

\* The alarm handler of the current status of a.node runs for alarm a.
TwoPC_AlarmFires(a) ==
    \/ TwoPC_alarm_WAITING_PREPARED(a)
    \/ TwoPC_alarm_WAITING_ACK(a)
    \/ TwoPC_default_alarm(a)

ThreePC_AlarmFires(a) ==
    \/ ThreePC_alarm_WAITING_PREPARED(a)
    \/ ThreePC_alarm_WAITING_ACK(a)
    \/ ThreePC_alarm_WAITING_DONE(a)
    \/ ThreePC_alarm_ABORTING(a)
    \/ ThreePC_default_alarm(a)

ThreePCByzantine_AlarmFires(a) ==
    \/ ThreePCByzantine_alarm_WAITING_PREPARED(a)
    \/ ThreePCByzantine_alarm_WAITING_ACK(a)
    \/ ThreePCByzantine_alarm_WAITING_DONE(a)
    \/ ThreePCByzantine_alarm_ABORTING(a)
    \/ ThreePCByzantine_default_alarm(a)

\* C27: when a Timeout_Ack_, Timeout_Done_ or Timeout_Abort_ alarm of the
\* Byzantine coordinator fires and node_status already records the awaited
\* response of that neighbor, or the coordinator has left the phase, the
\* handler sends nothing, arms nothing and changes neither status nor memory.
ThreePCByzantine_CompletedAlarmNoOp ==
    [][\A a \in alarms :
          (Completed(a) /\ ThreePCByzantine_AlarmFires(a)) => AlarmNoOp(a)]_vars

\* The same statement for the alarm handlers of 2PC.
TwoPC_CompletedAlarmNoOp ==
    [][\A a \in alarms : (Completed(a) /\ TwoPC_AlarmFires(a)) => AlarmNoOp(a)]_vars

\* The same statement for the alarm handlers of 3PC.
ThreePC_CompletedAlarmNoOp ==
    [][\A a \in alarms : (Completed(a) /\ ThreePC_AlarmFires(a)) => AlarmNoOp(a)]_vars

\* In COORDINATOR_WAITING_DONE the alarm of a neighbor whose Done is recorded
\* has fired and is gone, while another neighbor is still waited for.
ThreePCByzantine_CompletedAlarmNoOp_Witness ==
    LET c == ByzCoordinator
    IN  /\ status[c] = "COORDINATOR_WAITING_DONE"
        /\ \E s \in DOMAIN memory[c].node_status :
              /\ memory[c].node_status[s] = "done"
              /\ Alarm(c, "Timeout_Done_", s) \notin alarms
        /\ \E s \in DOMAIN memory[c].node_status :
              /\ memory[c].node_status[s] # "done"
              /\ Alarm(c, "Timeout_Done_", s) \in alarms

\* The neighbors of coordinator i whose node_status is still 'sleep'.
Asleep(i) == {j \in Nodes \ {i} : memory[i].node_status[SourceId(i, j)] = "sleep"}

\* One copy of a Prepare with this data is in flight to each node of dsts at
\* the end of the step, every other message is in flight as often as before.
PrepareSentExactlyTo(i, data, dsts) ==
    /\ \A j \in dsts : CopiesIn(Msg("Prepare", data, i, j), network') >= 1
    /\ \A msg \in BagToSet(network) \cup BagToSet(network') :
          \/ msg \in {Msg("Prepare", data, i, j) : j \in dsts}
          \/ CopiesIn(msg, network') = CopiesIn(msg, network)

\* A new Timeout_Prepared is armed iff some neighbor is asleep; no other
\* alarm is armed or removed.
RearmedIffAsleep(i) ==
    /\ Alarm(i, "Timeout_Prepared", NoId) \in alarms' <=> Asleep(i) # {}
    /\ alarms' \ {Alarm(i, "Timeout_Prepared", NoId)}
          = alarms \ {Alarm(i, "Timeout_Prepared", NoId)}

\* C28: in COORDINATOR_WAITING_PREPARED of 2PC the Timeout_Prepared handler
\* sends Prepare to exactly the neighbors whose node_status is still 'sleep'
\* and arms a new Timeout_Prepared iff at least one such neighbor exists.
TwoPC_TimeoutPreparedResends ==
    [][\A a \in alarms :
          (a.header = "Timeout_Prepared" /\ TwoPC_alarm_WAITING_PREPARED(a))
          => /\ PrepareSentExactlyTo(a.node, [id |-> UniqueValue(a.node)], Asleep(a.node))
             /\ RearmedIffAsleep(a.node)
             /\ UNCHANGED <<status, memory>>]_vars

\* The same statement for 3PC.
ThreePC_TimeoutPreparedResends ==
    [][\A a \in alarms :
          (a.header = "Timeout_Prepared" /\ ThreePC_alarm_WAITING_PREPARED(a))
          => /\ PrepareSentExactlyTo(a.node, [id |-> UniqueValue(a.node)], Asleep(a.node))
             /\ RearmedIffAsleep(a.node)
             /\ UNCHANGED <<status, memory>>]_vars

\* The same statement for Byzantine 3PC, whose Prepare is signed.
ThreePCByzantine_TimeoutPreparedResends ==
    [][\A a \in alarms :
          (a.header = "Timeout_Prepared" /\ ThreePCByzantine_alarm_WAITING_PREPARED(a))
          => /\ PrepareSentExactlyTo(a.node, Signed(a.node, "prepare"), Asleep(a.node))
             /\ RearmedIffAsleep(a.node)
             /\ UNCHANGED <<status, memory>>]_vars

\* The coordinator waits for Prepared with one neighbor recorded and another
\* asleep; a Prepare is in flight again to the asleep neighbor, which has
\* already answered the first, and none to the recorded one.
TwoPC_TimeoutPreparedResends_Witness ==
    /\ status[Coordinator] = "COORDINATOR_WAITING_PREPARED"
    /\ Alarm(Coordinator, "Timeout_Prepared", NoId) \in alarms
    /\ \E p, q \in Participants :
          /\ p \in Asleep(Coordinator)
          /\ q \notin Asleep(Coordinator)
          /\ status[p] = "WAITING"
          /\ Msg("Prepare", [id |-> UniqueValue(Coordinator)], Coordinator, p) \in InFlight
          /\ Msg("Prepare", [id |-> UniqueValue(Coordinator)], Coordinator, q) \notin InFlight

\* One copy of msg is in flight at the end of the step and every other
\* message is in flight as often as before.
OnlySent(msg) ==
    /\ CopiesIn(msg, network') >= 1
    /\ \A other \in (BagToSet(network) \cup BagToSet(network')) \ {msg} :
          CopiesIn(other, network') = CopiesIn(other, network)

\* C29: the 2PC coordinator leaves COORDINATOR_WAITING_PREPARED by
\* broadcasting a message whose header is memory['decision'], which does not
\* change afterwards; when Timeout_Ack_<id> fires in COORDINATOR_WAITING_ACK
\* and node_status[id] is not 'ack', the handler sends that neighbor, and
\* nobody else, a message with that header and re-arms Timeout_Ack_<id>; so
\* the alarm of every neighbor without a recorded Ack stays armed.
TwoPC_AckRetransmission ==
    /\ [][LET c == Coordinator
          IN  /\ (/\ status[c] = "COORDINATOR_WAITING_PREPARED"
                  /\ status'[c] = "COORDINATOR_WAITING_ACK")
                 => \A p \in Participants :
                       Msg(memory'[c].decision, [id |-> UniqueValue(c)], c, p)
                          \in BagToSet(network')
              /\ status[c] = "COORDINATOR_WAITING_ACK"
                 => memory'[c].decision = memory[c].decision
              /\ \A a \in alarms :
                    (/\ a.header = "Timeout_Ack_"
                     /\ memory[c].node_status[a.id] # "ack"
                     /\ TwoPC_alarm_WAITING_ACK(a))
                    => /\ \E p \in NeighborWithId(c, a.id) :
                             OnlySent(Msg(memory[c].decision, [id |-> UniqueValue(c)], c, p))
                       /\ alarms' = alarms
                       /\ UNCHANGED <<status, memory>>]_vars
    /\ [](status[Coordinator] = "COORDINATOR_WAITING_ACK"
            => \A s \in DOMAIN memory[Coordinator].node_status :
                  memory[Coordinator].node_status[s] # "ack"
                  => Alarm(Coordinator, "Timeout_Ack_", s) \in alarms)

\* The coordinator waits for the Ack of a participant that has already
\* handled Commit and is DONE, and a Commit is in flight to it again.
TwoPC_AckRetransmission_Witness ==
    /\ status[Coordinator] = "COORDINATOR_WAITING_ACK"
    /\ \E p \in Participants :
          /\ status[p] = "DONE"
          /\ memory[Coordinator].node_status[SourceId(Coordinator, p)] # "ack"
          /\ Msg(memory[Coordinator].decision, [id |-> UniqueValue(Coordinator)],
                 Coordinator, p) \in InFlight
          /\ Alarm(Coordinator, "Timeout_Ack_", SourceId(Coordinator, p)) \in alarms

\* The data a participant puts in a reply: its id, with a decision or without.
ReplyData(i) == {[id |-> UniqueValue(i)], [id |-> UniqueValue(i), decision |-> 1]}

\* The destination keeps its status and sends its source one reply with this
\* header.
ResendsReply(msg, header) ==
    /\ status' = status
    /\ \E data \in ReplyData(msg.destination) :
          network' = SendTo(Take(network, msg), header, data, msg.destination, {msg.source})

\* The header of the reply a 3PC participant gives a coordinator message the
\* first time it handles it.
ThreePC_FirstReply(header) ==
    IF header = "Prepare" THEN "Prepared"
    ELSE IF header = "PreCommit" THEN "Ack"
    ELSE IF header = "Commit" THEN "Done"
    ELSE "Aborted"

\* The header of the first reply of a 2PC participant.
TwoPC_FirstReply(header) == IF header = "Prepare" THEN "Prepared" ELSE "Ack"

\* A coordinator message is delivered to a 3PC participant in the status it
\* entered by answering it.
ThreePC_DuplicateDelivered(msg) ==
    /\ <<status[msg.destination], msg.header>> \in
          {<<"WAITING_PRECOMMIT", "Prepare">>, <<"WAITING", "PreCommit">>,
           <<"DONE", "Commit">>, <<"DONE", "Abort">>}
    /\ Consumed(msg)
    /\ ~Lose(msg)

TwoPC_DuplicateDelivered(msg) ==
    /\ <<status[msg.destination], msg.header>> \in
          {<<"WAITING", "Prepare">>, <<"DONE", "Commit">>, <<"DONE", "Abort">>}
    /\ Consumed(msg)
    /\ ~Lose(msg)

\* C30: a 3PC participant that receives again a coordinator message it has
\* answered (Prepare in WAITING_PRECOMMIT, PreCommit in WAITING, Commit or
\* Abort in DONE) keeps its status and resends a reply with the header of its
\* first reply (Prepared, Ack, Done, Aborted).
ThreePC_DuplicateSameReply ==
    [][\A msg \in InFlight :
          ThreePC_DuplicateDelivered(msg)
          => ResendsReply(msg, ThreePC_FirstReply(msg.header))]_vars

\* The same statement for 2PC (Prepare in WAITING, Commit or Abort in DONE;
\* Prepared, Ack).
TwoPC_DuplicateSameReply ==
    [][\A msg \in InFlight :
          TwoPC_DuplicateDelivered(msg)
          => ResendsReply(msg, TwoPC_FirstReply(msg.header))]_vars

\* --------------------------------------------------------------------
\* Oral-Messages relays
\* --------------------------------------------------------------------

\* forward_data of received_more_than_one (m > 1) and received_one (m = 1).
ForwardData(i, data) ==
    IF data.m > 1
    THEN [id |-> UniqueValue(i), decision |-> data.decision, m |-> data.m - 1,
          path |-> Append(data.path, UniqueValue(i)), n |-> data.n - 1]
    ELSE [id |-> UniqueValue(i), decision |-> data.decision, m |-> data.m - 1,
          path |-> data.path, n |-> data.n]

\* send_nodes of the node that handles msg.
RelayNodes(msg) ==
    SendNodes(LearnNeighbor(memory[msg.destination].neighbors, msg.destination, msg),
              msg.destination, msg.data.path)

\* A Decision with m >= 1 is handled by its destination in this step.
Relayed(msg) ==
    /\ msg.header = "Decision"
    /\ msg.data.m >= 1
    /\ status[msg.destination] \in {"LIEUTIENANT", "TRAITOR"}
    /\ Consumed(msg)

\* The decision the k-th destination of a relay is to get: the received one
\* from a lieutenant and in the first half of a traitor's destinations, the
\* flipped one in the second half of a traitor's destinations.
RelayDecision(msg, k) ==
    IF status[msg.destination] = "TRAITOR" /\ k > Len(RelayNodes(msg)) \div 2
    THEN 1 - msg.data.decision
    ELSE msg.data.decision

\* C31: a LIEUTENANT that received decision d sends d unchanged to every
\* destination; a TRAITOR that received d with k destinations sends d to the
\* first floor(k/2) destinations and 1-d to the remaining ones, for every d it
\* may receive.
OM_RelayContent ==
    [][\A msg \in InFlight :
          Relayed(msg)
          => \A k \in 1 .. Len(RelayNodes(msg)) :
                Msg("Decision",
                    [ForwardData(msg.destination, msg.data) EXCEPT
                        !.decision = RelayDecision(msg, k)],
                    msg.destination, RelayNodes(msg)[k]) \in BagToSet(network')]_vars

\* The messages put in flight by this step.
NewlySent == {m2 \in BagToSet(network') : CopiesIn(m2, network') > CopiesIn(m2, network)}

\* C32: a node relaying a Decision received with path p never sends the relay
\* to a node whose unique value is in p, under every delivery order.
OM_RelayAvoidsPath ==
    [][\A msg \in InFlight :
          Relayed(msg)
          => \A m2 \in NewlySent :
                m2.source = msg.destination
                => UniqueValue(m2.destination) \notin SeqToSet(msg.data.path)]_vars

\* --------------------------------------------------------------------
\* Oral Messages with three rounds of relays: m = 3 on five nodes, explored
\* up to DeepMaxHandled handled Decision messages.
\* --------------------------------------------------------------------

DeepNodes == 5
DeepM == 3
DeepMaxHandled == 4

\* The Decision messages the lieutenants and traitors have handled.
HandledCount == Cardinality({e \in log : e.event = "received"})

ByzantineDeepInit ==
    \E d \in {0, 1} :
        \E traitors \in SUBSET (1 .. (DeepNodes - 1)) :
            /\ Cardinality(traitors) = DeepM
            /\ Byzantine_initializer(DeepNodes, DeepM, d, 0, traitors)

ByzantineDeepNext ==
    \/ \E i \in Nodes : Byzantine_spontaneously(i)
    \/ \E msg \in InFlight :
          HandledCount < DeepMaxHandled /\ Byzantine_receiving_TRAITOR(msg)
    \/ \E msg \in InFlight :
          HandledCount < DeepMaxHandled /\ Byzantine_receiving_LIEUTIENANT(msg)
    \/ \E msg \in InFlight : Byzantine_default(msg)

ByzantineDeepSpec == ByzantineDeepInit /\ [][ByzantineDeepNext]_vars

\* A sequence without a repeated element.
NoRepeat(p) == \A a, b \in 1 .. Len(p) : p[a] = p[b] => a = b

\* C33: in every reachable state every key of every node's saved_decisions
\* is a tuple of length at least 1 whose first element is the commander's
\* unique value, contains no repeated id and does not contain the id of the
\* node that stores it.
OM_PathKeys ==
    \A i \in Nodes :
        \A p \in DOMAIN memory[i].saved_decisions :
            /\ Len(p) >= 1
            /\ p[1] = UniqueValue(Commander)
            /\ NoRepeat(p)
            /\ UniqueValue(i) \notin SeqToSet(p)

\* The entry of path p in node i's saved_decisions holds as many decisions as
\* its total.
RecordedAll(i, p) ==
    LET entry == memory[i].saved_decisions[p]
    IN  Cardinality(DOMAIN entry.decisions) = entry.total

\* What process_final_decision leaves behind for the entry of path p: a top
\* level lieutenant has decided, a lower entry's majority is recorded in the
\* parent entry under the last id of p.
Folded(i, p) ==
    IF Len(p) = 1
    THEN status[i] \in {"ATTACK", "RETREAT"}
    ELSE LET parent == SubSeq(p, 1, Len(p) - 1)
         IN  /\ parent \in DOMAIN memory[i].saved_decisions
             /\ p[Len(p)] \in DOMAIN memory[i].saved_decisions[parent].decisions

\* The entries process_final_decision has something to record for: every
\* entry but the top level one of a traitor, which returns at once.
Folds(i, p) == Len(p) >= 2 \/ status[i] # "TRAITOR"

\* No entry is folded while it is incomplete.
FoldedOnlyComplete ==
    \A i \in Nodes :
        \A p \in DOMAIN memory[i].saved_decisions :
            Folded(i, p) => RecordedAll(i, p)

\* A complete entry is folded in the step that completes it, its parent
\* with it when that fold completes the parent.
CompleteIsFolded ==
    fatal = None =>
        \A i \in Nodes :
            \A p \in DOMAIN memory[i].saved_decisions :
                RecordedAll(i, p) /\ Folds(i, p) => Folded(i, p)

\* A complete entry is never written again, so that it is not folded twice:
\* one more decision for it raises ValueError.
CompleteIsFinal ==
    \A i \in Nodes :
        \A p \in DOMAIN memory[i].saved_decisions :
            RecordedAll(i, p) =>
                \/ memory'[i].saved_decisions[p] = memory[i].saved_decisions[p]
                \/ fatal' = "ValueError"

\* C34: for every node and path-key, process_final_decision is invoked for
\* the entry exactly once, in the step in which the number of recorded
\* decisions first equals the entry's total and never while the entry is
\* incomplete; a fold of a child that completes its parent folds the parent in
\* the same step.
OM_FoldOnce ==
    [][FoldedOnlyComplete' /\ CompleteIsFolded' /\ CompleteIsFinal]_vars

\* A lieutenant has folded a child entry into a parent entry and decided.
OM_FoldOnce_Witness ==
    \E i \in Nodes :
        /\ status[i] \in {"ATTACK", "RETREAT"}
        /\ \E p \in DOMAIN memory[i].saved_decisions : Len(p) >= 2 /\ Folded(i, p)

\* m2 is the answer to msg that the protocol expects from the receiver of
\* msg: sent to the source of msg, carrying the receiver's id and a signature
\* that verify_signature accepts for the receiver's id.
ValidAnswer(msg, m2) ==
    LET id == UniqueValue(msg.destination)
    IN  /\ m2.source = msg.destination
        /\ m2.destination = msg.source
        /\ m2.data.id = id
        /\ \/ /\ msg.header = "Prepare"
              /\ m2.header = "Prepared"
              /\ m2.data.decision = 1
              /\ verify_signature(<<"prepared", id, 1>>, m2.data.signature, id)
           \/ /\ msg.header = "PreCommit"
              /\ m2.header = "Ack"
              /\ verify_signature(<<"ack", id>>, m2.data.signature, id)
           \/ /\ msg.header = "Commit"
              /\ m2.header = "Done"
              /\ verify_signature(<<"done", id>>, m2.data.signature, id)
           \/ /\ msg.header = "Abort"
              /\ m2.header = "Aborted"
              /\ verify_signature(<<"aborted", id>>, m2.data.signature, id)

\* A FAULTY node answers Prepare, PreCommit, Commit and Abort.
FaultyAnswers ==
    \A msg \in InFlight :
        /\ ThreePCByzantine_receiving_FAULTY(msg)
        /\ msg.header \in {"Prepare", "PreCommit", "Commit", "Abort"}
        => \E m2 \in BagToSet(network') : ValidAnswer(msg, m2)

\* A FAULTY node leaves FAULTY only for DONE, on Commit, Abort or Aborted.
FaultyStatus ==
    \A i \in Nodes :
        status[i] = "FAULTY" =>
            /\ status'[i] \in {"FAULTY", "DONE"}
            /\ status'[i] = "DONE" <=>
                   \E msg \in InFlight :
                       /\ msg.destination = i
                       /\ msg.header \in {"Commit", "Abort", "Aborted"}
                       /\ ThreePCByzantine_receiving_FAULTY(msg)

\* A node initialized as FAULTY that is in DONE sends no Commit and no Abort.
FaultyDoneQuiet ==
    \A m2 \in NewlySent :
        ~Honest(m2.source) /\ status[m2.source] = "DONE"
            => m2.header \notin {"Commit", "Abort"}

\* C35: a FAULTY node of B3PC that receives Prepare, PreCommit, Commit or
\* Abort replies to the source with a validly self-signed Prepared with
\* decision 1, Ack, Done or Aborted respectively; it changes status only on
\* Commit, Abort or Aborted, to DONE; once in DONE it sends no more
\* equivocating Commit or Abort.
ThreePCByzantine_FaultyReplies ==
    [][FaultyAnswers /\ FaultyStatus /\ FaultyDoneQuiet]_vars

\* A node initialized as FAULTY has answered Commit with Done and is in DONE.
ThreePCByzantine_FaultyReplies_Witness ==
    \E i \in Nodes :
        /\ ~Honest(i)
        /\ status[i] = "DONE"
        /\ \E m2 \in InFlight :
              /\ m2.source = i
              /\ m2.header = "Done"
              /\ verify_signature(<<"done", UniqueValue(i)>>, m2.data.signature,
                                  UniqueValue(i))

\* --------------------------------------------------------------------
\* majority_decision as a function of the decisions map
\* --------------------------------------------------------------------

MajIds == 5

\* The maps from a set of ids to the decisions 0 and 1, the empty map included.
DecisionMaps == UNION {[ids -> {0, 1}] : ids \in SUBSET (1 .. MajIds)}

\* One node holds a decisions map; nothing was computed.
MajorityInit ==
    \E decisions \in DecisionMaps :
        /\ params = [n |-> 1, m |-> 0]
        /\ status = [i \in {0} |-> "LIEUTIENANT"]
        /\ memory = [i \in {0} |-> [decisions |-> decisions]]
        /\ network = EmptyBag
        /\ alarms = {}
        /\ fatal = None
        /\ log = {}

\* The node computes majority_decision of its map and records the result.
Decide(i) ==
    /\ log = {}
    /\ log' = {[node |-> i, event |-> "majority_decision",
                decisions |-> memory[i].decisions,
                result |-> majority_decision(memory[i].decisions)]}
    /\ UNCHANGED <<params, status, memory, network, alarms, fatal>>

MajorityNext == \E i \in Nodes : Decide(i)

MajoritySpec == MajorityInit /\ [][MajorityNext]_vars

\* How many entries of the map carry the value.
CountValue(decisions, value) ==
    Cardinality({k \in DOMAIN decisions : decisions[k] = value})

\* C36: majority_decision returns 1 exactly when the map holds strictly more
\* 1s than 0s and 0 otherwise; a tie and the empty map give 0.
OM_MajorityDecision ==
    \A e \in log :
        /\ e.result \in {0, 1}
        /\ e.result = 1 <=> CountValue(e.decisions, 1) > CountValue(e.decisions, 0)
        /\ CountValue(e.decisions, 1) = CountValue(e.decisions, 0) => e.result = 0
        /\ e.decisions = << >> => e.result = 0

\* A tie between two 1s and two 0s was decided 0.
OM_MajorityDecision_Witness ==
    \E e \in log :
        /\ CountValue(e.decisions, 1) = 2
        /\ CountValue(e.decisions, 0) = 2
        /\ e.result = 0

\* C37: whenever process_final_decision folds a complete entry whose path has
\* length at least 2, saved_decisions already holds the entry of the parent
\* path, so that under no delivery order the lookup of the parent fails.
OM_ParentPresent ==
    /\ fatal # "KeyError"
    /\ \A i \in Nodes :
          \A p \in DOMAIN memory[i].saved_decisions :
              Len(p) >= 2 /\ RecordedAll(i, p)
                  => SubSeq(p, 1, Len(p) - 1) \in DOMAIN memory[i].saved_decisions

\* --------------------------------------------------------------------
\* Oral Messages with m = 3 on five nodes under one delivery schedule: the
\* link SlowLink delivers only when nothing else is in flight; the other
\* links deliver the highest m first and, among equal m, the lowest
\* destination first.
\* --------------------------------------------------------------------

\* The slow link, as <<sender, receiver>>.
SlowLink == <<1, 3>>

Slow(msg) == msg.source = SlowLink[1] /\ msg.destination = SlowLink[2]

\* The schedule lets msg be delivered now.
Ready(msg) ==
    IF Slow(msg)
    THEN \A m2 \in InFlight : Slow(m2)
    ELSE \A m2 \in InFlight :
             Slow(m2)
             \/ m2.data.m < msg.data.m
             \/ (m2.data.m = msg.data.m /\ m2.destination >= msg.destination)

ByzantineSlowInit ==
    \E d \in {0, 1}, commander \in {0, SlowLink[1]} :
        \E traitors \in SUBSET ((0 .. (DeepNodes - 1)) \ {commander}) :
            /\ Cardinality(traitors) = DeepM
            /\ Byzantine_initializer(DeepNodes, DeepM, d, commander, traitors)

ByzantineSlowNext ==
    \/ \E i \in Nodes : Byzantine_spontaneously(i)
    \/ \E msg \in InFlight : Ready(msg) /\ Byzantine_receiving_TRAITOR(msg)
    \/ \E msg \in InFlight : Ready(msg) /\ Byzantine_receiving_LIEUTIENANT(msg)
    \/ \E msg \in InFlight : Ready(msg) /\ Byzantine_default(msg)

ByzantineSlowSpec == ByzantineSlowInit /\ [][ByzantineSlowNext]_vars

\* A Decision message addressed to node i is in flight.
Undelivered(i) ==
    \E msg \in InFlight : msg.destination = i /\ msg.header = "Decision"

\* C38: at the step in which a lieutenant changes status to ATTACK or RETREAT
\* no Decision message addressed to it is still undelivered, so that a node in
\* ATTACK or RETREAT never receives a message and never changes status again.
OM_DecidedQuiet ==
    [][\A i \in Nodes :
          /\ Decided(i)' => ~Undelivered(i)'
          /\ Decided(i) => status'[i] = status[i]]_vars

\* Node c puts a message with one of these headers on the network in this step.
Sends(c, headers) ==
    \E m2 \in NewlySent : m2.source = c /\ m2.header \in headers

\* The coordinator c sends Commit only on entering or in
\* COORDINATOR_WAITING_DONE and Abort only on entering or in
\* COORDINATOR_ABORTING; neither status is left for anything but DONE; in
\* COORDINATOR_WAITING_DONE it sends no Abort, in COORDINATOR_ABORTING no
\* PreCommit and no Commit, and in DONE none of the three.
Exclusive(c) ==
    /\ Sends(c, {"Commit"}) =>
           /\ status[c] \in {"COORDINATOR_WAITING_ACK", "COORDINATOR_WAITING_DONE"}
           /\ status'[c] = "COORDINATOR_WAITING_DONE"
    /\ Sends(c, {"Abort"}) => status'[c] = "COORDINATOR_ABORTING"
    /\ status[c] = "COORDINATOR_WAITING_DONE" =>
           /\ status'[c] \in {"COORDINATOR_WAITING_DONE", "DONE"}
           /\ ~Sends(c, {"Abort"})
    /\ status[c] = "COORDINATOR_ABORTING" =>
           /\ status'[c] \in {"COORDINATOR_ABORTING", "DONE"}
           /\ ~Sends(c, {"PreCommit", "Commit"})
    /\ status[c] = "DONE" =>
           /\ status'[c] = "DONE"
           /\ ~Sends(c, {"PreCommit", "Commit", "Abort"})

\* C39: in a run of 3PC the coordinator never sends both Commit and Abort:
\* once in COORDINATOR_WAITING_DONE it never sends Abort and once in
\* COORDINATOR_ABORTING it never sends PreCommit or Commit, whatever alarms
\* armed earlier fire later.
ThreePC_CoordinatorExclusive == [][Exclusive(Coordinator)]_vars

\* The same for the coordinator of B3PC.
ThreePCByzantine_CoordinatorExclusive == [][Exclusive(ByzCoordinator)]_vars

\* The coordinator is waiting for Done, a Commit of it is in flight, and an
\* alarm it armed while waiting for an Ack is still due.
ThreePC_CoordinatorExclusive_Witness ==
    /\ status[Coordinator] = "COORDINATOR_WAITING_DONE"
    /\ \E msg \in InFlight : msg.source = Coordinator /\ msg.header = "Commit"
    /\ \E a \in alarms : a.node = Coordinator /\ a.header = "Timeout_Ack_"

====
